---- MODULE Spec2Model ----
(***************************************************************************)
(* Model of ethpandaops/snapshotter: the agreement check over the fleet,   *)
(* the polling scheduler, the snapshot lifecycle (CreateSnapshot and its   *)
(* phases), the audit store (snapshot_runs / target_snapshots), the        *)
(* persist API and the retention cleanup.                                  *)
(*                                                                         *)
(* The specifications share the variables:                                *)
(*   SpecSync    VerifyTargetsAreSynced applied to every combination of    *)
(*               probe outcomes;                                           *)
(*   Spec        the polling loop driving CreateSnapshot (one poller, as   *)
(*               in main), FairSpec adds the scheduling fairness;          *)
(*   SpecAdmit   several goroutines calling CreateSnapshot concurrently;   *)
(*   SpecCleanup cleanup cycles and persist API calls over an audit store; *)
(*   SpecMigrate RunMigrations on a database file;                         *)
(*   SpecStart   process start (Init) followed by the polling loop;        *)
(*   SpecLatest  updateLatestFile under every root prefix;                 *)
(*   SpecAuth    requests to the authenticated subrouter of the API;       *)
(*   SpecFaulty  Spec over an audit store whose status updates can fail;   *)
(*   SpecConcurrent  SpecCleanup with requests served during a cycle;      *)
(*   SpecTick    one tick of the polling loop over a store of earlier      *)
(*               attempts;                                                 *)
(*   SpecSweep   cleanup cycles alone over a store one attempt longer;     *)
(*   SpecLock    the statements of the poller and of the status reader     *)
(*               that touch the shared status and its mutex.               *)
(* Audit-store statements are taken to succeed (the store is local SQLite),*)
(* except the INSERT of CreateSnapshotRun, whose error CreateSnapshot       *)
(* returns, and, in SpecFaulty, the status UPDATE of CreateSnapshot, whose  *)
(* error it logs.                                                          *)
(***************************************************************************)
EXTENDS Integers, Sequences, FiniteSets, TLC

\* ---------------------------------------------------------------- bounds
NumTargets == 2      \* size of the fleet (cfg.Targets.SSH)
MaxHeight == 2       \* largest block height a target reports
MaxInterval == 2     \* largest configured block_interval
MaxRuns == 1         \* cap on the attempts the poller triggers in a behaviour
NumCallers == 2      \* goroutines calling CreateSnapshot in SpecAdmit
MaxCalls == 2        \* cap on the CreateSnapshot calls in a behaviour of SpecAdmit
MaxStoreRuns == 2    \* rows of snapshot_runs in the initial store of SpecCleanup
MaxKeepCount == 1    \* largest configured cleanup.keep_count
MaxApiCalls == 2     \* cap on persist/unpersist requests in a behaviour
MaxCycles == 2       \* cap on cleanup cycles in a behaviour
MaxTokenLen == 2     \* longest configured API token, in symbols
MaxPrefixLen == 2    \* longest configured S3 root prefix, in symbols
MaxMigrationRuns == 3 \* cap on the calls of RunMigrations in a behaviour
MaxTickHeight == 3   \* largest block height a target reports in SpecTick

Targets == 1..NumTargets
Heights == 0..MaxHeight
Callers == 1..NumCallers
Poller == 1

VARIABLES
  cfg,         \* config.Config: DryRun, RunOnce, BlockInterval, KeepCount, APIToken,
               \* RootPrefix
  status,      \* types.SnapshotterStatus
  runs,        \* table snapshot_runs, row id = index
  tgts,        \* table target_snapshots, row id = index
  uploadedFiles, \* object storage: key -> content (the "latest" marker)
  cmds,        \* remote commands issued by the current attempt: <<run id, command, target>>
  fails,       \* those of cmds that returned an error
  delCalls,    \* target_snapshots ids whose prefix was passed to DeleteDirectory
  probes,      \* per-target probe outcomes gathered by VerifyTargetsAreSynced
  verdict,     \* result of the last VerifyTargetsAreSynced: allSynced, block
  pc,          \* position of each goroutine that may call CreateSnapshot
  run,         \* CreateSnapshot's local run.ID per caller (0: none)
  ret,         \* error returned by the caller's last CreateSnapshot ("" = nil)
  reprobe,     \* result of the Preparing re-probe of the attempt in progress
  finalizers,  \* dry-run goroutines still sleeping: target_snapshots ids
  cl,          \* cleanupSnapshots: position, runsToProcess, loop indices, whether a
               \* deletion failed, cycles done, the store as the cycle found it,
               \* the rows whose deletion was logged as failed, the error returned,
               \* whether the cycle before this one ran without a failed deletion
  apiCalls,    \* persist/unpersist requests served so far
  calls,       \* CreateSnapshot calls issued so far in SpecAdmit
  last,        \* the operation performed by the last step: op, caller p (for a
               \* persist request: the number of target rows it changed), id, arg
  schema,      \* the database schema: added columns, the migrations table, the
               \* position of RunMigrations, and whether a call was stopped between a
               \* schema change and its record
  http,        \* the last request to a protected endpoint: Authorization header, status code
  faulty       \* whether an UPDATE of snapshot_runs can return an error in this behaviour

vars == <<cfg, status, runs, tgts, uploadedFiles, cmds, fails, delCalls,
          probes, verdict, pc, run, ret, reprobe, finalizers, cl, apiCalls, calls, last,
          schema, http, faulty>>

\* ------------------------------------------------- agreement check (pure)
NoProbes == << >>
NoVerdict == [allSynced |-> FALSE, block |-> 0, set |-> FALSE]

\* GetSyncStatusCL: an error, or the beacon node's syncing record.
CLOk == [err |-> FALSE, IsSyncing |-> FALSE, IsOptimistic |-> FALSE, ElOffline |-> FALSE,
         SyncDistance |-> "1"]
CLErr == [CLOk EXCEPT !.err = TRUE]
CLSyncing == [CLOk EXCEPT !.IsSyncing = TRUE]
CLOptimistic == [CLOk EXCEPT !.IsOptimistic = TRUE]
CLElOffline == [CLOk EXCEPT !.ElOffline = TRUE]
CLFar == [CLOk EXCEPT !.SyncDistance = "2"]
CLBadDistance == [CLOk EXCEPT !.SyncDistance = "x"]
CLResponses == {CLErr, CLOk, CLSyncing, CLOptimistic, CLElOffline, CLFar, CLBadDistance}

\* Output of the eth_syncing command: "false", "true", or unparsable text.
ELOutputs == {"false", "true", "garbage"}

\* GetELBlockNumber: an error, or the command output: a hex quantity (its
\* value) or text that is not a hex quantity (NotHex).
NotHex == -1
BlockErr == [err |-> TRUE, out |-> NotHex]
BlockResponsesUpTo(n) == {BlockErr} \cup [err : {FALSE}, out : (0..n) \cup {NotHex}]
BlockResponses == BlockResponsesUpTo(MaxHeight)

ProbeRecords(cls, els, blks) == [cl : cls, el : els, blk : blks]
AllProbes == [Targets -> ProbeRecords(CLResponses, ELOutputs, BlockResponses)]

\* strconv.Atoi with the error dropped: unparsable text gives 0.
Atoi(s) == IF s = "1" THEN 1 ELSE IF s = "2" THEN 2 ELSE 0

\* hexutil.DecodeUint64 with the error dropped: unparsable text gives 0.
DecodeUint64(x) == IF x = NotHex THEN 0 ELSE x

\* GetSyncStatusEL: <<isSyncing, err>>.
GetSyncStatusEL(out) ==
  IF out = "true" THEN [syncing |-> TRUE, err |-> FALSE]
  ELSE IF out = "false" THEN [syncing |-> FALSE, err |-> FALSE]
  ELSE [syncing |-> TRUE, err |-> TRUE]

\* The value the CL goroutine sends on syncResults.
CLSyncResult(r) ==
  IF r.err THEN FALSE
  ELSE IF r.IsSyncing THEN FALSE
  ELSE IF r.IsOptimistic THEN FALSE
  ELSE IF r.ElOffline THEN FALSE
  ELSE IF Atoi(r.SyncDistance) > 1 THEN FALSE
  ELSE TRUE

\* The value the EL goroutine sends on syncResults.
ELSyncResult(out) == ~GetSyncStatusEL(out).err

\* The values the block goroutine sends on syncResults and blockResults.
BlockSyncResult(b) == ~b.err
BlockResult(b) == IF b.err THEN 0 ELSE DecodeUint64(b.out)

RECURSIVE AllSameFrom(_, _, _)
AllSameFrom(ch, i, firstValue) ==
  IF i > Len(ch) THEN [same |-> TRUE, block |-> firstValue]
  ELSE IF ch[i] # firstValue THEN [same |-> FALSE, block |-> 0]
  ELSE AllSameFrom(ch, i + 1, firstValue)

\* checkIfAllSameResults over the values received from the channel.
checkIfAllSameResults(ch) ==
  IF Len(ch) = 0 THEN [same |-> FALSE, block |-> 0]
  ELSE AllSameFrom(ch, 2, ch[1])

VerifyTargetsAreSynced(pr) ==
  LET syncOk == \A t \in Targets :
                  /\ CLSyncResult(pr[t].cl)
                  /\ ELSyncResult(pr[t].el)
                  /\ BlockSyncResult(pr[t].blk)
      blockResults == [t \in Targets |-> BlockResult(pr[t].blk)]
      res == checkIfAllSameResults(blockResults)
  IN [allSynced |-> syncOk /\ res.same, block |-> res.block, set |-> TRUE]

\* ------------------------------------------------------------ audit store
\* An error value: the text of the error a remote command returned.
ErrMsg(op, t) == op \o " failed on target " \o ToString(t)
AlreadyInProgress == "there's already a snapshot in progress"
InsertFailed == "failed to create snapshot run record"
NotSameHeight == "failed due to not all targets reporting the same block height"

\* An INSERT that records the run as success at once.
CreateSnapshotRun_Success(rs, blockHeight, dryRun) ==
  Append(rs, [BlockHeight |-> blockHeight, Status |-> "success", ErrorMessage |-> "",
              DryRun |-> dryRun, Deleted |-> FALSE, Persisted |-> FALSE])

\* INSERT INTO snapshot_runs: status running; deleted and persisted default to 0.
CreateSnapshotRun(rs, blockHeight, dryRun) ==
  Append(rs, [BlockHeight |-> blockHeight, Status |-> "running", ErrorMessage |-> "",
              DryRun |-> dryRun, Deleted |-> FALSE, Persisted |-> FALSE])

UpdateSnapshotRunStatus(rs, id, st, errorMsg) ==
  [rs EXCEPT ![id].Status = st, ![id].ErrorMessage = errorMsg]

\* INSERT INTO target_snapshots: status running; deleted and persisted default to 0.
CreateTargetSnapshot(ts, runID, alias, uploadPrefix, dryRun) ==
  Append(ts, [SnapshotRunID |-> runID, Alias |-> alias, UploadPrefix |-> uploadPrefix,
              Status |-> "running", ErrorMessage |-> "", DryRun |-> dryRun,
              Deleted |-> FALSE, Persisted |-> FALSE])

UpdateTargetSnapshotStatus(ts, id, st, errorMsg) ==
  [ts EXCEPT ![id].Status = st, ![id].ErrorMessage = errorMsg]

\* Ids of the target_snapshots rows of a run, in creation order.
GetTargetSnapshotsForRun(ts, runID) ==
  SelectSeq([i \in 1..Len(ts) |-> i], LAMBDA i : ts[i].SnapshotRunID = runID)

\* The newest row of snapshot_runs (0: no row).
GetMostRecentRun(rs) == Len(rs)

\* UPDATE snapshot_runs SET deleted = 1, then the same on every target row of the run.
MarkSnapshotRunAsDeleted(db, id) ==
  [rs |-> [db.rs EXCEPT ![id].Deleted = TRUE],
   ts |-> [i \in 1..Len(db.ts) |->
             IF db.ts[i].SnapshotRunID = id THEN [db.ts[i] EXCEPT !.Deleted = TRUE]
             ELSE db.ts[i]]]

MarkTargetSnapshotAsDeleted(ts, id) == [ts EXCEPT ![id].Deleted = TRUE]

\* SetSnapshotRunPersisted without the second UPDATE.
SetSnapshotRunPersisted_NoCascade(db, id, persisted) ==
  [rs |-> [db.rs EXCEPT ![id].Persisted = persisted], ts |-> db.ts]

\* UPDATE snapshot_runs SET persisted, then the same on every target row of the run.
SetSnapshotRunPersisted(db, id, persisted) ==
  [rs |-> [db.rs EXCEPT ![id].Persisted = persisted],
   ts |-> [i \in 1..Len(db.ts) |->
             IF db.ts[i].SnapshotRunID = id THEN [db.ts[i] EXCEPT !.Persisted = persisted]
             ELSE db.ts[i]]]

\* SetTargetSnapshotPersisted with WHERE snapshot_run_id = (the run of the row).
SetTargetSnapshotPersisted_ByRun(ts, id, persisted) ==
  [i \in 1..Len(ts) |->
     IF ts[i].SnapshotRunID = ts[id].SnapshotRunID THEN [ts[i] EXCEPT !.Persisted = persisted]
     ELSE ts[i]]

\* UPDATE target_snapshots SET persisted WHERE id.
SetTargetSnapshotPersisted(ts, id, persisted) == [ts EXCEPT ![id].Persisted = persisted]

\* A destination that leaves the height out.
UploadPrefixOf_NoHeight(alias, blockHeight) == <<alias, 0>>

\* fmt.Sprintf("%s/%d", UploadPrefix, ProcessedBlockHeight): the configured
\* prefix of the target (one per alias) and the height.
UploadPrefixOf(alias, blockHeight) == <<alias, blockHeight>>

\* ---------------------------------------------------- schema migrations
\* var migrations: the ids of the list, in order.
NumMigrations == 3
MigrationIds == 1..NumMigrations

\* The columns a migration adds, as <<table, column>>.
ColumnsOf(id) ==
  CASE id = 1 -> {<<"snapshot_runs", "deleted">>, <<"target_snapshots", "deleted">>}
    [] id = 2 -> {<<"snapshot_runs", "persisted">>}
    [] id = 3 -> {<<"target_snapshots", "persisted">>}

\* Range of a sequence.
Range(q) == {q[k] : k \in DOMAIN q}

\* The database after initSchema on a new file: no added column, no
\* migrations table; RunMigrations not running.
NewSchema == [columns |-> {}, table |-> FALSE, ledger |-> << >>, pc |-> "idle",
              applied |-> {}, i |-> 0, calls |-> 0, ret |-> "none",
              completed |-> FALSE, again |-> FALSE, torn |-> FALSE]

\* The database after NewDB returned.
Migrated == [NewSchema EXCEPT !.columns = UNION {ColumnsOf(id) : id \in MigrationIds},
                              !.table = TRUE,
                              !.ledger = [k \in MigrationIds |-> k],
                              !.completed = TRUE]

\* ALTER TABLE ADD COLUMN: an error when the column exists.
AddColumn(db, c) ==
  IF c \in db.columns THEN [db EXCEPT !.ret = "err"]
  ELSE [db EXCEPT !.columns = @ \cup {c}]

RECURSIVE Migrate(_, _)
\* A migration that adds its columns without looking for them first.
Migrate_NoCheck(db, cols) ==
  IF cols \cap db.columns # {} THEN [db EXCEPT !.ret = "err"]
  ELSE [db EXCEPT !.columns = @ \cup cols]

\* migrateAdd...Column: each column is added when pragma_table_info does not list it.
Migrate(db, cols) ==
  IF cols = {} \/ db.ret = "err" THEN db
  ELSE LET c == CHOOSE x \in cols : TRUE IN
       Migrate(IF c \in db.columns THEN db ELSE AddColumn(db, c), cols \ {c})

\* INSERT INTO migrations: id is the primary key.
InsertMigration(db, id) ==
  IF id \in Range(db.ledger) THEN [db EXCEPT !.ret = "err"]
  ELSE [db EXCEPT !.ledger = Append(@, id)]

\* ------------------------------------------------------- initial values
NoStore == [rs |-> << >>, ts |-> << >>]
NoCleanup == [pc |-> "idle", toProcess |-> << >>, i |-> 0, j |-> 0, failed |-> FALSE,
              cycles |-> 0, before |-> NoStore, errs |-> {}, ret |-> "",
              clean |-> FALSE]
NoRequest == [Authorization |-> << >>, Code |-> 0]
NoLast == [op |-> "none", p |-> 0, id |-> 0, arg |-> FALSE]
\* Sequences over alphabet of length at most n.
SeqsUpTo(alphabet, n) == UNION {[1..k -> alphabet] : k \in 0..n}

\* Strings are sequences of symbols; Bearer stands for the seven characters
\* of the scheme prefix, Slash for the path separator.
Bearer == "Bearer "
Slash == "/"
Tokens == SeqsUpTo({Bearer, "a"}, MaxTokenLen)
RootPrefixes == SeqsUpTo({Slash, "a"}, MaxPrefixLen)

Configs == [DryRun : BOOLEAN, RunOnce : BOOLEAN, BlockInterval : 1..MaxInterval,
            KeepCount : 0..MaxKeepCount, APIToken : Tokens, RootPrefix : RootPrefixes]

\* A configuration with a token and without a root prefix.
Plain(c) == c.APIToken = <<"a">> /\ c.RootPrefix = << >>
\* types.SnapshotterStatus with its embedded sync.Mutex (0: unlocked, else the
\* goroutine that holds it).
StatusInit(i) == [BlockInterval |-> i, ProcessedBlockHeight |-> 0,
                  NextSnapshotBlockHeight |-> 0, SnapshotInProgress |-> FALSE,
                  Mutex |-> 0]

\* No attempt, request or cleanup cycle in progress.
AtRest ==
  /\ uploadedFiles = << >>
  /\ cmds = {}
  /\ fails = {}
  /\ delCalls = {}
  /\ probes = NoProbes
  /\ verdict = NoVerdict
  /\ run = [p \in Callers |-> 0]
  /\ ret = [p \in Callers |-> ""]
  /\ reprobe = NoVerdict
  /\ finalizers = {}
  /\ cl = NoCleanup
  /\ apiCalls = 0
  /\ calls = 0
  /\ last = NoLast

\* The same after Init: NewDB has run the migrations, no request was served.
NothingInFlight ==
  /\ AtRest
  /\ schema = Migrated
  /\ http = NoRequest
  /\ faulty = FALSE

\* The same on a fresh database (NewDB).
Fresh ==
  /\ NothingInFlight
  /\ runs = << >>
  /\ tgts = << >>

\* ------------------------------------------------ SpecSync: the pure check
InitSync ==
  /\ Fresh
  /\ pc = [p \in Callers |-> "off"]
  /\ cfg \in {c \in Configs : /\ ~c.DryRun /\ ~c.RunOnce /\ c.BlockInterval = 1
                               /\ c.KeepCount = 0 /\ Plain(c)}
  /\ status = StatusInit(cfg.BlockInterval)

\* The goroutines of VerifyTargetsAreSynced report their results.
GatherProbes ==
  /\ probes = NoProbes
  /\ \E pr \in AllProbes : probes' = pr
  /\ last' = [NoLast EXCEPT !.op = "GatherProbes"]
  /\ UNCHANGED <<cfg, faulty, schema, http, status, runs, tgts, uploadedFiles, cmds, fails, delCalls, verdict,
                 pc, run, ret, reprobe, finalizers, cl, apiCalls, calls>>

\* wg.Wait returned: the results are reduced to (allSynced, block).
ReduceProbes ==
  /\ probes # NoProbes
  /\ ~verdict.set
  /\ verdict' = VerifyTargetsAreSynced(probes)
  /\ last' = [NoLast EXCEPT !.op = "ReduceProbes"]
  /\ UNCHANGED <<cfg, faulty, schema, http, status, runs, tgts, uploadedFiles, cmds, fails, delCalls, probes,
                 pc, run, ret, reprobe, finalizers, cl, apiCalls, calls>>

NextSync == GatherProbes \/ ReduceProbes
SpecSync == InitSync /\ [][NextSync]_vars

\* What the agreement check is meant to accept: the beacon node answers and
\* is synced, the execution client answers and is not syncing, and the block
\* height is retrieved.
CLProbePassed(r) ==
  /\ ~r.err
  /\ ~r.IsSyncing
  /\ ~r.IsOptimistic
  /\ ~r.ElOffline
  /\ Atoi(r.SyncDistance) <= 1
ELProbePassed(out) == out = "false"
BlockProbePassed(b) == ~b.err /\ b.out # NotHex
ProbesPassed(pr) ==
  \A t \in Targets :
    CLProbePassed(pr[t].cl) /\ ELProbePassed(pr[t].el) /\ BlockProbePassed(pr[t].blk)
HeightsEqual(pr) == \A t, u \in Targets : pr[t].blk.out = pr[u].blk.out

\* C2: VerifyTargetsAreSynced returns allSynced=true iff every per-target
\* probe (CL sync status, EL sync flag, block-height retrieval) passed and all
\* retrieved heights are pairwise equal; in every other case it returns
\* allSynced=false and the reported height is 0.
C2_AllSyncedIffProbesPassAndAgree ==
  verdict.set =>
    /\ verdict.allSynced <=> (ProbesPassed(probes) /\ HeightsEqual(probes))
    /\ ~verdict.allSynced => verdict.block = 0

\* ------------------------------------------------- snapshot lifecycle
Did(op, p, id) == [op |-> op, p |-> p, id |-> id, arg |-> FALSE]

\* The outcomes of UpdateSnapshotRunStatus: TRUE when it returns an error.
UpdateErrors == IF faulty THEN BOOLEAN ELSE {FALSE}

\* CreateSnapshot updates the status of its run: an error of the update is
\* logged and dropped, the row stays as it is.
RecordStatus(p, st, errorMsg) ==
  \E errDB \in UpdateErrors :
    runs' = IF errDB THEN runs ELSE UpdateSnapshotRunStatus(runs, run[p], st, errorMsg)

\* A failure that ends the process instead of being returned.
FailAttempt_Fatal(p, errorMsg) ==
  /\ RecordStatus(p, "failed", errorMsg)
  /\ ret' = [ret EXCEPT ![p] = errorMsg]
  /\ pc' = [pc EXCEPT ![p] = "exited"]

\* The phase returned err: CreateSnapshot records the failure and returns it.
FailAttempt(p, errorMsg) ==
  /\ RecordStatus(p, "failed", errorMsg)
  /\ ret' = [ret EXCEPT ![p] = errorMsg]
  /\ pc' = [pc EXCEPT ![p] = "defer"]

\* A group whose error is dropped: the caller goes on to the next step.
RunGroup_ErrorDropped(p, op, next) ==
  \E ok \in [Targets -> BOOLEAN] :
    /\ cmds' = cmds \cup {<<run[p], op, t>> : t \in Targets}
    /\ fails' = fails \cup {<<run[p], op, t>> : t \in {u \in Targets : ~ok[u]}}
    /\ pc' = [pc EXCEPT ![p] = next]
    /\ UNCHANGED <<runs, ret>>

\* An errgroup running command op on every target, then group.Wait: every
\* goroutine runs to its end, the error of one failing goroutine is returned.
RunGroup(p, op, next) ==
  \E ok \in [Targets -> BOOLEAN] :
    LET failed == {t \in Targets : ~ok[t]} IN
    /\ cmds' = cmds \cup {<<run[p], op, t>> : t \in Targets}
    /\ fails' = fails \cup {<<run[p], op, t>> : t \in failed}
    /\ IF failed = {}
       THEN /\ pc' = [pc EXCEPT ![p] = next]
            /\ UNCHANGED <<runs, ret>>
       ELSE \E t \in failed : FailAttempt(p, ErrMsg(op, t))

\* The same with two commands in sequence on each target; the second is
\* issued on a target only when the first succeeded there (out: 0 both ok,
\* 1 the first failed, 2 the second failed).
RunGroup2(p, op1, op2, next) ==
  \E out \in [Targets -> 0..2] :
    LET failed == {t \in Targets : out[t] # 0}
        opOf(t) == IF out[t] = 1 THEN op1 ELSE op2
    IN
    /\ cmds' = cmds \cup {<<run[p], op1, t>> : t \in Targets}
                    \cup {<<run[p], op2, t>> : t \in {u \in Targets : out[u] # 1}}
    /\ fails' = fails \cup {<<run[p], opOf(t), t>> : t \in failed}
    /\ IF failed = {}
       THEN /\ pc' = [pc EXCEPT ![p] = next]
            /\ UNCHANGED <<runs, ret>>
       ELSE \E t \in failed : FailAttempt(p, ErrMsg(opOf(t), t))

\* Enter without the test of the flag: every caller sets it and goes on.
Enter_NoGuard(p) ==
  /\ pc[p] = "create"
  /\ status' = [status EXCEPT !.SnapshotInProgress = TRUE]
  /\ pc' = [pc EXCEPT ![p] = "createrun"]
  /\ last' = Did("Enter", p, 0)
  /\ UNCHANGED <<cfg, faulty, schema, http, runs, tgts, uploadedFiles, cmds, fails, delCalls, probes, verdict,
                 run, ret, reprobe, finalizers, cl, apiCalls, calls>>

\* CreateSnapshot, the entry guard under the status lock.
Enter(p) ==
  /\ pc[p] = "create"
  /\ IF status.SnapshotInProgress
     THEN /\ ret' = [ret EXCEPT ![p] = AlreadyInProgress]
          /\ pc' = [pc EXCEPT ![p] = "returned"]
          /\ UNCHANGED status
     ELSE /\ status' = [status EXCEPT !.SnapshotInProgress = TRUE]
          /\ pc' = [pc EXCEPT ![p] = "createrun"]
          /\ UNCHANGED ret
  /\ last' = Did("Enter", p, 0)
  /\ UNCHANGED <<cfg, faulty, schema, http, runs, tgts, uploadedFiles, cmds, fails, delCalls, probes, verdict,
                 run, reprobe, finalizers, cl, apiCalls, calls>>

\* CreateSnapshot, the run record: when the INSERT fails the error is
\* returned and no row exists.
CreateRun(p) ==
  /\ pc[p] = "createrun"
  /\ \E err \in BOOLEAN :
       IF err
       THEN /\ ret' = [ret EXCEPT ![p] = InsertFailed]
            /\ pc' = [pc EXCEPT ![p] = "defer"]
            /\ last' = Did("CreateRun", p, 0)
            /\ UNCHANGED <<runs, run, reprobe, cmds, fails>>
       ELSE /\ runs' = CreateSnapshotRun(runs, status.ProcessedBlockHeight, cfg.DryRun)
            /\ run' = [run EXCEPT ![p] = Len(runs) + 1]
            /\ reprobe' = NoVerdict
            /\ cmds' = {}
            /\ fails' = {}
            /\ pc' = [pc EXCEPT ![p] = "prepare"]
            /\ last' = Did("CreateRun", p, Len(runs) + 1)
            /\ UNCHANGED ret
  /\ UNCHANGED <<cfg, faulty, schema, http, status, tgts, uploadedFiles, delCalls, probes, verdict,
                 finalizers, cl, apiCalls, calls>>

\* PrepareForSnapshot: the dry-run return, else the snooper is stopped on all targets.
PrepareStopSnooper(p) ==
  /\ pc[p] = "prepare"
  /\ IF cfg.DryRun
     THEN /\ pc' = [pc EXCEPT ![p] = "upload"]
          /\ UNCHANGED <<runs, ret, cmds, fails>>
     ELSE RunGroup(p, "StopSnooper", "reprobe")
  /\ last' = Did("PrepareStopSnooper", p, run[p])
  /\ UNCHANGED <<cfg, faulty, schema, http, status, tgts, uploadedFiles, delCalls, probes, verdict,
                 run, reprobe, finalizers, cl, apiCalls, calls>>

\* PrepareForSnapshot: after the settle delay every target's EL block is read
\* again and the values must all be the same.
PrepareReprobe(p) ==
  /\ pc[p] = "reprobe"
  /\ \E br \in [Targets -> BlockResponses] :
       LET res == checkIfAllSameResults([t \in Targets |-> BlockResult(br[t])]) IN
       /\ cmds' = cmds \cup {<<run[p], "GetELBlockNumber", t>> : t \in Targets}
       /\ fails' = fails \cup {<<run[p], "GetELBlockNumber", t>> : t \in {u \in Targets : br[u].err}}
       /\ reprobe' = [allSynced |-> res.same, block |-> res.block, set |-> TRUE]
       /\ IF res.same
          THEN /\ pc' = [pc EXCEPT ![p] = "dump"]
               /\ UNCHANGED <<runs, ret>>
          ELSE FailAttempt(p, NotSameHeight)
  /\ last' = Did("PrepareReprobe", p, run[p])
  /\ UNCHANGED <<cfg, faulty, schema, http, status, tgts, uploadedFiles, delCalls, probes, verdict,
                 run, finalizers, cl, apiCalls, calls>>

\* PrepareForSnapshot: eth_getBlockByNumber and web3_clientVersion are dumped to files.
PrepareDump(p) ==
  /\ pc[p] = "dump"
  /\ RunGroup2(p, "DumpGetBlockByNumber", "DumpClientVersion", "stop_el")
  /\ last' = Did("PrepareDump", p, run[p])
  /\ UNCHANGED <<cfg, faulty, schema, http, status, tgts, uploadedFiles, delCalls, probes, verdict,
                 run, reprobe, finalizers, cl, apiCalls, calls>>

\* A Preparing phase that leaves the EL container running.
PrepareStopEL_Skipped(p) ==
  /\ pc[p] = "stop_el"
  /\ pc' = [pc EXCEPT ![p] = "upload"]
  /\ last' = Did("PrepareStopEL", p, run[p])
  /\ UNCHANGED <<cfg, faulty, schema, http, status, runs, tgts, uploadedFiles, cmds, fails, delCalls,
                 probes, verdict, run, ret, reprobe, finalizers, cl, apiCalls, calls>>

\* PrepareForSnapshot: the EL container is stopped on all targets.
PrepareStopEL(p) ==
  /\ pc[p] = "stop_el"
  /\ RunGroup(p, "StopEL", "upload")
  /\ last' = Did("PrepareStopEL", p, run[p])
  /\ UNCHANGED <<cfg, faulty, schema, http, status, tgts, uploadedFiles, delCalls, probes, verdict,
                 run, reprobe, finalizers, cl, apiCalls, calls>>

\* The id CreateTargetSnapshot returned for the target alias in this run.
RowOf(ts, runID, alias) ==
  CHOOSE i \in 1..Len(ts) : ts[i].SnapshotRunID = runID /\ ts[i].Alias = alias

RECURSIVE CreateRows(_, _, _, _)
\* The loop of UploadSnapshot over sshTargets, from target t on.
CreateRows(ts, runID, t, blockHeight) ==
  IF t > NumTargets THEN ts
  ELSE CreateRows(CreateTargetSnapshot(ts, runID, t, UploadPrefixOf(t, blockHeight), cfg.DryRun),
                  runID, t + 1, blockHeight)

\* A root prefix that drops the trailing slash of a configured prefix.
GetRootPrefix_NoSlash(rootPrefix) ==
  IF rootPrefix # << >> /\ rootPrefix[Len(rootPrefix)] = Slash
  THEN SubSeq(rootPrefix, 1, Len(rootPrefix) - 1)
  ELSE rootPrefix

\* S3Client.GetRootPrefix: a non-empty configured prefix, with "/" appended
\* unless it has the suffix "/"; else the empty string.
GetRootPrefix(rootPrefix) ==
  IF rootPrefix # << >>
  THEN IF rootPrefix[Len(rootPrefix)] # Slash THEN rootPrefix \o <<Slash>> ELSE rootPrefix
  ELSE << >>

\* The key of the marker object.
LatestKey(rootPrefix) == GetRootPrefix(rootPrefix) \o <<"latest">>

\* updateLatestFile: the object <root prefix>latest receives the decimal
\* ProcessedBlockHeight; nothing is written in dry-run mode.
updateLatestFile(files, dryRun, rootPrefix, blockHeight) ==
  IF dryRun THEN files ELSE (LatestKey(rootPrefix) :> ToString(blockHeight)) @@ files

\* UploadSnapshot: a target_snapshots row per target; in dry-run mode a
\* goroutine per row sleeps and then marks it success, and nothing is awaited;
\* otherwise an rclone goroutine per target is started.
UploadStart(p) ==
  /\ pc[p] = "upload"
  /\ tgts' = CreateRows(tgts, run[p], 1, status.ProcessedBlockHeight)
  /\ IF cfg.DryRun
     THEN /\ finalizers' = finalizers \cup (Len(tgts) + 1)..(Len(tgts) + NumTargets)
          /\ pc' = [pc EXCEPT ![p] = "post"]
          /\ UNCHANGED cmds
     ELSE /\ cmds' = cmds \cup {<<run[p], "RCloneSyncLocalToRemote", t>> : t \in Targets}
          /\ pc' = [pc EXCEPT ![p] = "uploading"]
          /\ UNCHANGED finalizers
  /\ last' = Did("UploadStart", p, run[p])
  /\ UNCHANGED <<cfg, faulty, schema, http, status, runs, uploadedFiles, fails, delCalls, probes, verdict,
                 run, ret, reprobe, cl, apiCalls, calls>>

\* UploadWait failing fast: after the first failed upload the rows of the
\* other targets are left as they were created.
UploadWait_FailFast(p) ==
  /\ pc[p] = "uploading"
  /\ \E ok \in [Targets -> BOOLEAN] :
       LET failed == {t \in Targets : ~ok[t]}
           op == "RCloneSyncLocalToRemote"
       IN
       /\ fails' = fails \cup {<<run[p], op, t>> : t \in failed}
       /\ IF failed = {}
          THEN /\ tgts' = [i \in 1..Len(tgts) |->
                             IF tgts[i].SnapshotRunID # run[p] THEN tgts[i]
                             ELSE UpdateTargetSnapshotStatus(tgts, i, "success", "")[i]]
               /\ uploadedFiles' = updateLatestFile(uploadedFiles, cfg.DryRun, cfg.RootPrefix,
                                                    status.ProcessedBlockHeight)
               /\ pc' = [pc EXCEPT ![p] = "post"]
               /\ UNCHANGED <<runs, ret>>
          ELSE /\ \E t \in failed :
                    /\ tgts' = UpdateTargetSnapshotStatus(tgts, RowOf(tgts, run[p], t),
                                                          "failed", ErrMsg(op, t))
                    /\ FailAttempt(p, ErrMsg(op, t))
               /\ UNCHANGED uploadedFiles
  /\ last' = Did("UploadWait", p, run[p])
  /\ UNCHANGED <<cfg, faulty, schema, http, status, cmds, delCalls, probes, verdict,
                 run, reprobe, finalizers, cl, apiCalls, calls>>

\* UploadSnapshot: every rclone goroutine records its own result on its row;
\* group.Wait returns after all of them, with the error of one that failed.
\* After a successful upload phase the latest marker is written.
UploadWait(p) ==
  /\ pc[p] = "uploading"
  /\ \E ok \in [Targets -> BOOLEAN] :
       LET failed == {t \in Targets : ~ok[t]}
           op == "RCloneSyncLocalToRemote"
       IN
       /\ tgts' = [i \in 1..Len(tgts) |->
                     IF tgts[i].SnapshotRunID # run[p] THEN tgts[i]
                     ELSE IF ok[tgts[i].Alias]
                          THEN UpdateTargetSnapshotStatus(tgts, i, "success", "")[i]
                          ELSE UpdateTargetSnapshotStatus(tgts, i, "failed",
                                                          ErrMsg(op, tgts[i].Alias))[i]]
       /\ fails' = fails \cup {<<run[p], op, t>> : t \in failed}
       /\ IF failed = {}
          THEN /\ uploadedFiles' = updateLatestFile(uploadedFiles, cfg.DryRun, cfg.RootPrefix,
                                                    status.ProcessedBlockHeight)
               /\ pc' = [pc EXCEPT ![p] = "post"]
               /\ UNCHANGED <<runs, ret>>
          ELSE /\ \E t \in failed : FailAttempt(p, ErrMsg(op, t))
               /\ UNCHANGED uploadedFiles
  /\ last' = Did("UploadWait", p, run[p])
  /\ UNCHANGED <<cfg, faulty, schema, http, status, cmds, delCalls, probes, verdict,
                 run, reprobe, finalizers, cl, apiCalls, calls>>

\* A restore that goes on to the EL after a failed snooper start.
PostStartSnooper_ErrorDropped(p) ==
  /\ pc[p] = "post"
  /\ IF cfg.DryRun
     THEN /\ pc' = [pc EXCEPT ![p] = "finish"]
          /\ UNCHANGED <<runs, ret, cmds, fails>>
     ELSE RunGroup_ErrorDropped(p, "StartSnooper", "start_el")
  /\ last' = Did("PostStartSnooper", p, run[p])
  /\ UNCHANGED <<cfg, faulty, schema, http, status, tgts, uploadedFiles, delCalls, probes, verdict,
                 run, reprobe, finalizers, cl, apiCalls, calls>>

\* PostSnapshotStart: the dry-run return, else the snooper is started on all targets.
PostStartSnooper(p) ==
  /\ pc[p] = "post"
  /\ IF cfg.DryRun
     THEN /\ pc' = [pc EXCEPT ![p] = "finish"]
          /\ UNCHANGED <<runs, ret, cmds, fails>>
     ELSE RunGroup(p, "StartSnooper", "start_el")
  /\ last' = Did("PostStartSnooper", p, run[p])
  /\ UNCHANGED <<cfg, faulty, schema, http, status, tgts, uploadedFiles, delCalls, probes, verdict,
                 run, reprobe, finalizers, cl, apiCalls, calls>>

\* PostSnapshotStart: the EL container is started on all targets.
PostStartEL(p) ==
  /\ pc[p] = "start_el"
  /\ RunGroup(p, "StartEL", "restart_beacon")
  /\ last' = Did("PostStartEL", p, run[p])
  /\ UNCHANGED <<cfg, faulty, schema, http, status, tgts, uploadedFiles, delCalls, probes, verdict,
                 run, reprobe, finalizers, cl, apiCalls, calls>>

\* PostSnapshotStart: RestartBeacon stops and then starts the beacon container.
PostRestartBeacon(p) ==
  /\ pc[p] = "restart_beacon"
  /\ RunGroup2(p, "StopBeacon", "StartBeacon", "finish")
  /\ last' = Did("PostRestartBeacon", p, run[p])
  /\ UNCHANGED <<cfg, faulty, schema, http, status, tgts, uploadedFiles, delCalls, probes, verdict,
                 run, reprobe, finalizers, cl, apiCalls, calls>>

\* Finish without the final status update: the run stays at running.
Finish_NoUpdate(p) ==
  /\ pc[p] = "finish"
  /\ ret' = [ret EXCEPT ![p] = ""]
  /\ pc' = [pc EXCEPT ![p] = "defer"]
  /\ last' = Did("Finish", p, run[p])
  /\ UNCHANGED <<cfg, faulty, schema, http, status, runs, tgts, uploadedFiles, cmds, fails, delCalls, probes,
                 verdict, run, reprobe, finalizers, cl, apiCalls, calls>>

\* CreateSnapshot: all phases returned nil; (after the dry-run sleep) the run
\* is recorded as success.
Finish(p) ==
  /\ pc[p] = "finish"
  /\ RecordStatus(p, "success", "")
  /\ ret' = [ret EXCEPT ![p] = ""]
  /\ pc' = [pc EXCEPT ![p] = "defer"]
  /\ last' = Did("Finish", p, run[p])
  /\ UNCHANGED <<cfg, faulty, schema, http, status, tgts, uploadedFiles, cmds, fails, delCalls, probes, verdict,
                 run, reprobe, finalizers, cl, apiCalls, calls>>

\* A return that leaves the flag as it is.
Defer_NoClear(p) ==
  /\ pc[p] = "defer"
  /\ pc' = [pc EXCEPT ![p] = "returned"]
  /\ last' = Did("Defer", p, run[p])
  /\ UNCHANGED <<cfg, faulty, schema, http, status, runs, tgts, uploadedFiles, cmds, fails, delCalls, probes,
                 verdict, run, ret, reprobe, finalizers, cl, apiCalls, calls>>

\* CreateSnapshot returns: the deferred function clears the flag under the lock.
Defer(p) ==
  /\ pc[p] = "defer"
  /\ status' = [status EXCEPT !.SnapshotInProgress = FALSE]
  /\ pc' = [pc EXCEPT ![p] = "returned"]
  /\ last' = Did("Defer", p, run[p])
  /\ UNCHANGED <<cfg, faulty, schema, http, runs, tgts, uploadedFiles, cmds, fails, delCalls, probes, verdict,
                 run, ret, reprobe, finalizers, cl, apiCalls, calls>>

\* The process runs until os.Exit.
Alive == pc[Poller] \notin {"exited", "fatal"}

\* A dry-run goroutine of UploadSnapshot wakes up and marks its row success.
Finalize(id) ==
  /\ Alive
  /\ id \in finalizers
  /\ tgts' = UpdateTargetSnapshotStatus(tgts, id, "success", "")
  /\ finalizers' = finalizers \ {id}
  /\ last' = Did("Finalize", 0, id)
  /\ UNCHANGED <<cfg, faulty, schema, http, status, runs, uploadedFiles, cmds, fails, delCalls, probes, verdict,
                 pc, run, ret, reprobe, cl, apiCalls, calls>>

Lifecycle(p) ==
  \/ Enter(p)
  \/ CreateRun(p)
  \/ PrepareStopSnooper(p)
  \/ PrepareReprobe(p)
  \/ PrepareDump(p)
  \/ PrepareStopEL(p)
  \/ UploadStart(p)
  \/ UploadWait(p)
  \/ PostStartSnooper(p)
  \/ PostStartEL(p)
  \/ PostRestartBeacon(p)
  \/ Finish(p)
  \/ Defer(p)

\* The remainder's complement without the test for a full interval.
BlocksLeftToNextSnapshot_NoZero(blockNumber) ==
  cfg.BlockInterval - (blockNumber % cfg.BlockInterval)

\* ---------------------------------------------------- polling scheduler
BlocksLeftToNextSnapshot(blockNumber) ==
  LET b == cfg.BlockInterval - (blockNumber % cfg.BlockInterval) IN
  IF b = cfg.BlockInterval THEN 0 ELSE b

\* The probe outcomes a tick of the poller may see.
TickProbesUpTo(n) ==
  [Targets -> ProbeRecords({CLOk, CLSyncing}, {"false", "true"}, BlockResponsesUpTo(n))]
TickProbes == TickProbesUpTo(MaxHeight)

\* A staleness test that also fires at exactly one interval.
LastRunIsTooOld_AtLeast(blockNumber) ==
  /\ GetMostRecentRun(runs) # 0
  /\ blockNumber >= runs[GetMostRecentRun(runs)].BlockHeight + cfg.BlockInterval

\* lastRunIsTooOld of StartPeriodicPolling.
LastRunIsTooOld(blockNumber) ==
  /\ GetMostRecentRun(runs) # 0
  /\ blockNumber > runs[GetMostRecentRun(runs)].BlockHeight + cfg.BlockInterval

\* One tick of StartPeriodicPolling up to the call of CreateSnapshot. The
\* channels of VerifyTargetsAreSynced are gone when it returns; last.arg keeps
\* whether the probes passed and agreed.
Poll(probeSet) ==
  /\ pc[Poller] = "tick"
  /\ \E pr \in probeSet :
       LET v == VerifyTargetsAreSynced(pr)
           blocksLeft == BlocksLeftToNextSnapshot(v.block)
       IN
       /\ verdict' = v
       /\ last' = [Did("Tick", Poller, 0) EXCEPT !.arg = ProbesPassed(pr) /\ HeightsEqual(pr)]
       /\ IF v.allSynced
          THEN /\ status' = [status EXCEPT !.ProcessedBlockHeight = v.block,
                                           !.NextSnapshotBlockHeight = v.block + blocksLeft]
               /\ IF blocksLeft = 0 \/ LastRunIsTooOld(v.block)
                  THEN pc' = [pc EXCEPT ![Poller] = "create"]
                  ELSE UNCHANGED pc
          ELSE UNCHANGED <<status, pc>>
  /\ UNCHANGED <<cfg, faulty, schema, http, runs, tgts, uploadedFiles, cmds, fails, delCalls, probes,
                 run, ret, reprobe, finalizers, cl, apiCalls, calls>>

\* A poller that leaves the process running after a failed attempt.
AfterAttempt_ExitOnSuccess ==
  /\ pc[Poller] = "returned"
  /\ IF cfg.RunOnce /\ ret[Poller] = ""
     THEN /\ pc' = [pc EXCEPT ![Poller] = "exited"]
          /\ UNCHANGED <<run, ret>>
     ELSE /\ pc' = [pc EXCEPT ![Poller] = "tick"]
          /\ run' = [run EXCEPT ![Poller] = 0]
          /\ ret' = [ret EXCEPT ![Poller] = ""]
  /\ last' = Did("AfterAttempt", Poller, run[Poller])
  /\ UNCHANGED <<cfg, faulty, schema, http, status, runs, tgts, uploadedFiles, cmds, fails, delCalls, probes,
                 verdict, reprobe, finalizers, cl, apiCalls, calls>>

\* The ticker fires while the poller may still trigger an attempt.
Tick ==
  /\ Len(runs) < MaxRuns
  /\ Poll(TickProbes)

\* CreateSnapshot returned to StartPeriodicPolling: os.Exit(0) in run-once
\* mode, else the cool-down sleep and back to the ticker (the attempt's run
\* and err go out of scope).
AfterAttempt ==
  /\ pc[Poller] = "returned"
  /\ IF cfg.RunOnce
     THEN /\ pc' = [pc EXCEPT ![Poller] = "exited"]
          /\ UNCHANGED <<run, ret>>
     ELSE /\ pc' = [pc EXCEPT ![Poller] = "tick"]
          /\ run' = [run EXCEPT ![Poller] = 0]
          /\ ret' = [ret EXCEPT ![Poller] = ""]
  /\ last' = Did("AfterAttempt", Poller, run[Poller])
  /\ UNCHANGED <<cfg, faulty, schema, http, status, runs, tgts, uploadedFiles, cmds, fails, delCalls, probes,
                 verdict, reprobe, finalizers, cl, apiCalls, calls>>

Init ==
  /\ Fresh
  /\ pc = [p \in Callers |-> IF p = Poller THEN "tick" ELSE "off"]
  /\ cfg \in {c \in Configs : c.KeepCount = 0 /\ Plain(c)}
  /\ status = StatusInit(cfg.BlockInterval)

\* main: the poller is the only caller of CreateSnapshot.
Next ==
  \/ Tick
  \/ Lifecycle(Poller)
  \/ AfterAttempt
  \/ \E id \in finalizers : Finalize(id)

Spec == Init /\ [][Next]_vars

\* --------------------------------- SpecAdmit: concurrent CreateSnapshot calls
InitAdmit ==
  /\ Fresh
  /\ pc = [p \in Callers |-> "idle"]
  /\ cfg \in {c \in Configs : ~c.RunOnce /\ c.BlockInterval = 1 /\ c.KeepCount = 0 /\ Plain(c)}
  /\ status = [StatusInit(cfg.BlockInterval) EXCEPT !.ProcessedBlockHeight = MaxHeight,
                                                    !.NextSnapshotBlockHeight = MaxHeight]

\* A goroutine calls CreateSnapshot.
Call(p) ==
  /\ pc[p] = "idle"
  /\ calls < MaxCalls
  /\ calls' = calls + 1
  /\ pc' = [pc EXCEPT ![p] = "create"]
  /\ last' = Did("Call", p, 0)
  /\ UNCHANGED <<cfg, faulty, schema, http, status, runs, tgts, uploadedFiles, cmds, fails, delCalls, probes,
                 verdict, run, ret, reprobe, finalizers, cl, apiCalls>>

\* The caller has the result of CreateSnapshot and drops it.
Return(p) ==
  /\ pc[p] = "returned"
  /\ pc' = [pc EXCEPT ![p] = "idle"]
  /\ run' = [run EXCEPT ![p] = 0]
  /\ ret' = [ret EXCEPT ![p] = ""]
  /\ last' = Did("Return", p, run[p])
  /\ UNCHANGED <<cfg, faulty, schema, http, status, runs, tgts, uploadedFiles, cmds, fails, delCalls, probes,
                 verdict, reprobe, finalizers, cl, apiCalls, calls>>

NextAdmit ==
  \/ \E p \in Callers : Call(p)
  \/ \E p \in Callers : Lifecycle(p)
  \/ \E p \in Callers : Return(p)
  \/ \E id \in finalizers : Finalize(id)

SpecAdmit == InitAdmit /\ [][NextAdmit]_vars

\* Positions of CreateSnapshot after the entry guard and before its return.
PastGuard(p) ==
  pc[p] \in {"createrun", "prepare", "reprobe", "dump", "stop_el", "upload", "uploading",
             "post", "start_el", "restart_beacon", "finish", "defer"}
Running == {r \in 1..Len(runs) : runs[r].Status = "running"}

\* C1: at most one CreateSnapshot call is past the entry guard at any instant;
\* the call that finds SnapshotInProgress=false sets it and goes on, every call
\* overlapping it returns the already-in-progress error without creating a run
\* record, and at most one run has status=running at any instant.
C1_AdmitStep ==
  \A p \in Callers :
    (pc[p] = "create" /\ pc'[p] # "create") =>
      IF \E q \in Callers : q # p /\ PastGuard(q)
      THEN ret'[p] = AlreadyInProgress /\ pc'[p] = "returned" /\ runs' = runs /\ tgts' = tgts
      ELSE ~status.SnapshotInProgress /\ status'.SnapshotInProgress /\ pc'[p] = "createrun"
C1_OneInFlight ==
  /\ Cardinality({p \in Callers : PastGuard(p)}) <= 1
  /\ Cardinality(Running) <= 1
FairSpec ==
  /\ Spec
  /\ WF_vars(Tick)
  /\ WF_vars(Lifecycle(Poller))
  /\ WF_vars(AfterAttempt)
  /\ \A id \in 1..(MaxRuns * NumTargets) : WF_vars(Finalize(id))

Rclone == "RCloneSyncLocalToRemote"
RunIds == 1..Len(runs)
RowsOf(r) == {i \in 1..Len(tgts) : tgts[i].SnapshotRunID = r}
\* One row per configured target, each with status success.
AllTargetsSucceeded(r) ==
  \A t \in Targets :
    /\ Cardinality({i \in RowsOf(r) : tgts[i].Alias = t}) = 1
    /\ \A i \in RowsOf(r) : tgts[i].Status = "success"
Returned(p) == pc[p] \in {"returned", "exited"} /\ run[p] # 0

Mutating == {"StopSnooper", "DumpGetBlockByNumber", "DumpClientVersion", "StopEL", Rclone,
             "StartSnooper", "StartEL", "StopBeacon", "StartBeacon"}

\* C8: in dry-run mode an attempt issues no remote stop, start, dump or
\* transfer command on any target, creates one row per target, every such row
\* is eventually marked success, and the run is marked success.
C8_NoRemoteCommand == cfg.DryRun => \A c \in cmds : c[2] \notin Mutating
DryRunCreated(r) == r \in RunIds /\ runs[r].DryRun
DryRunCompleted(r) == r \in RunIds /\ runs[r].Status = "success" /\ AllTargetsSucceeded(r)
C8_DryRunAttempt ==
  /\ []C8_NoRemoteCommand
  /\ \A r \in 1..MaxRuns : DryRunCreated(r) ~> DryRunCompleted(r)

\* C9 (as stated): an attempt triggered at an agreed height H, a multiple of
\* blockInterval, in which every remote operation succeeds, ends with
\* status=success, every target has a row with status=success, and the latest
\* marker contains H.
LatestIs(h) ==
  /\ LatestKey(cfg.RootPrefix) \in DOMAIN uploadedFiles
  /\ uploadedFiles[LatestKey(cfg.RootPrefix)] = ToString(h)
HappyEnd(p) ==
  /\ runs[run[p]].Status = "success"
  /\ AllTargetsSucceeded(run[p])
  /\ LatestIs(runs[run[p]].BlockHeight)
C9_TickStep ==
  (pc[Poller] = "tick" /\ last'.op = "Tick") =>
    /\ last'.arg => verdict'.allSynced
    /\ (verdict'.allSynced /\ verdict'.block % cfg.BlockInterval = 0) =>
         /\ pc'[Poller] = "create"
         /\ status'.ProcessedBlockHeight = verdict'.block
C9_End ==
  /\ run[Poller] # 0 => runs[run[Poller]].BlockHeight = verdict.block
  /\ (Returned(Poller) /\ ~cfg.DryRun /\ fails = {} /\ reprobe.allSynced) => HappyEnd(Poller)
TickFrame ==
  /\ status' = status
  /\ runs' = runs
  /\ tgts' = tgts
  /\ pc'[Poller] = "tick"

\* C10: on a tick where some target fails a probe or two targets report
\* different heights, no attempt is triggered, no run record is created, and
\* the status (processed height, next-snapshot height, in-progress flag) is
\* left unchanged.
C10_TickStep ==
  (pc[Poller] = "tick" /\ last'.op = "Tick" /\ ~last'.arg) => TickFrame
C10_NoTriggerFrame == [][C10_TickStep]_vars

\* The frame does hold on the ticks where VerifyTargetsAreSynced itself
\* answers false.
VerdictFrameStep ==
  (pc[Poller] = "tick" /\ last'.op = "Tick" /\ ~verdict'.allSynced) => TickFrame
VerdictFrame == [][VerdictFrameStep]_vars

\* --------------------- SpecCleanup: retention cleanup and persist requests
\* The store after a finished attempt at height blockHeight: all uploads
\* succeeded (ok), or the upload of the first target failed.
FinishedAttempt(db, blockHeight, ok) ==
  LET rs1 == CreateSnapshotRun(db.rs, blockHeight, cfg.DryRun)
      id == Len(rs1)
      ts1 == CreateRows(db.ts, id, 1, blockHeight)
      first == RowOf(ts1, id, 1)
      ts2 == [i \in 1..Len(ts1) |->
                IF ts1[i].SnapshotRunID # id THEN ts1[i]
                ELSE IF ok \/ i # first
                     THEN UpdateTargetSnapshotStatus(ts1, i, "success", "")[i]
                     ELSE UpdateTargetSnapshotStatus(ts1, i, "failed", ErrMsg(Rclone, 1))[i]]
  IN [rs |-> IF ok THEN UpdateSnapshotRunStatus(rs1, id, "success", "")
                   ELSE UpdateSnapshotRunStatus(rs1, id, "failed", ErrMsg(Rclone, 1)),
      ts |-> ts2]

\* The store after the attempts of hist, oldest first.
RECURSIVE StoreAfter(_)
StoreAfter(hist) ==
  IF hist = << >> THEN NoStore
  ELSE CHOOSE db \in {FinishedAttempt(earlier, hist[Len(hist)].h, hist[Len(hist)].ok) :
                        earlier \in {StoreAfter(SubSeq(hist, 1, Len(hist) - 1))}} : TRUE

Histories ==
  UNION {[1..n -> [h : 1..MaxHeight, ok : BOOLEAN]] : n \in 0..MaxStoreRuns}

InitCleanup ==
  /\ NothingInFlight
  /\ pc = [p \in Callers |-> "off"]
  /\ cfg \in {c \in Configs : ~c.RunOnce /\ c.BlockInterval = 1 /\ Plain(c)}
  /\ status = StatusInit(cfg.BlockInterval)
  /\ \E hist \in Histories :
       LET db == StoreAfter(hist) IN
       /\ runs = db.rs
       /\ tgts = db.ts

\* StartCleanupRoutine: the keepCount handed to cleanupSnapshots.
keepCount == IF cfg.KeepCount <= 0 THEN 3 ELSE cfg.KeepCount

\* A row of snapshot_runs as GetSuccessfulRunsForCleanup returns it, with the
\* copies of its target rows.
RunCopy(rs, ts, id) ==
  LET ids == GetTargetSnapshotsForRun(ts, id) IN
  [ID |-> id, Persisted |-> rs[id].Persisted,
   TargetsSnapshot |-> [k \in 1..Len(ids) |->
                          [ID |-> ids[k], Status |-> ts[ids[k]].Status,
                           Deleted |-> ts[ids[k]].Deleted,
                           Persisted |-> ts[ids[k]].Persisted]]]

\* WHERE status = 'success' AND deleted = 0 ORDER BY block_height DESC: the
\* results the query may return (rows of equal height come in any order).
GetSuccessfulRunsForCleanup(rs, ts) ==
  LET ids == {r \in 1..Len(rs) : rs[r].Status = "success" /\ ~rs[r].Deleted}
      n == Cardinality(ids)
      orders == {f \in [1..n -> ids] :
                   /\ \A a, b \in 1..n : a # b => f[a] # f[b]
                   /\ \A a, b \in 1..n : a < b => rs[f[a]].BlockHeight >= rs[f[b]].BlockHeight}
  IN {[k \in 1..n |-> RunCopy(rs, ts, f[k])] : f \in orders}

\* cleanupSnapshots, the partition of a run's successful targets.
NonPersistedTargets(r) ==
  SelectSeq(r.TargetsSnapshot, LAMBDA t : t.Status = "success" /\ ~t.Persisted)

\* cleanupSnapshots, allTargetsDeleted: read from the copies fetched with the run.
AllTargetsDeleted(r) ==
  \A k \in 1..Len(r.TargetsSnapshot) :
    LET t == r.TargetsSnapshot[k] IN
    ~(t.Status = "success" /\ ~t.Deleted /\ ~t.Persisted)

\* cleanupSnapshots up to the loop over runsToProcess.
CleanupFetch ==
  /\ cl.pc = "idle"
  /\ cl.cycles < MaxCycles
  /\ \E fetched \in GetSuccessfulRunsForCleanup(runs, tgts) :
       LET nonPersistedRuns == SelectSeq(fetched, LAMBDA r : ~r.Persisted)
           started == [cl EXCEPT !.failed = FALSE, !.before = [rs |-> runs, ts |-> tgts],
                                 !.errs = {}, !.ret = "",
                                 !.clean = cl.cycles > 0 /\ ~cl.failed]
       IN
       IF Len(nonPersistedRuns) <= keepCount
       THEN cl' = [started EXCEPT !.cycles = @ + 1, !.ret = ""]
       ELSE cl' = [started EXCEPT !.pc = "targets", !.i = 1, !.j = 1,
                     !.toProcess = SubSeq(nonPersistedRuns, keepCount + 1, Len(nonPersistedRuns))]
  /\ delCalls' = {}
  /\ last' = Did("CleanupFetch", 0, 0)
  /\ UNCHANGED <<cfg, faulty, schema, http, status, runs, tgts, uploadedFiles, cmds, fails, probes, verdict,
                 pc, run, ret, reprobe, finalizers, apiCalls, calls>>

\* deleteTargetSnapshotFiles returning err: in dry-run mode it returns nil
\* before the call of DeleteDirectory.
deleteTargetSnapshotFiles(target, err) ==
  IF cfg.DryRun
  THEN ~err /\ UNCHANGED delCalls
  ELSE delCalls' = delCalls \cup {target.ID}

\* A loop that returns at the first failed deletion.
CleanupTarget_AbortOnError ==
  /\ cl.pc = "targets"
  /\ cl.j <= Len(NonPersistedTargets(cl.toProcess[cl.i]))
  /\ LET target == NonPersistedTargets(cl.toProcess[cl.i])[cl.j] IN
     \E err \in BOOLEAN :
       /\ deleteTargetSnapshotFiles(target, err)
       /\ IF err
          THEN /\ cl' = [cl EXCEPT !.pc = "idle", !.i = 0, !.j = 0, !.toProcess = << >>,
                                   !.cycles = @ + 1, !.failed = TRUE,
                                   !.errs = @ \cup {target.ID}, !.ret = "err"]
               /\ UNCHANGED tgts
          ELSE /\ cl' = [cl EXCEPT !.j = @ + 1]
               /\ tgts' = MarkTargetSnapshotAsDeleted(tgts, target.ID)
       /\ last' = [Did("CleanupTarget", 0, target.ID) EXCEPT !.arg = err]
  /\ UNCHANGED <<cfg, faulty, schema, http, status, runs, uploadedFiles, cmds, fails, probes, verdict,
                 pc, run, ret, reprobe, finalizers, apiCalls, calls>>

\* cleanupSnapshots, one round of the loop over nonPersistedTargets.
CleanupTarget ==
  /\ cl.pc = "targets"
  /\ cl.j <= Len(NonPersistedTargets(cl.toProcess[cl.i]))
  /\ LET target == NonPersistedTargets(cl.toProcess[cl.i])[cl.j] IN
     \E err \in BOOLEAN :
       /\ deleteTargetSnapshotFiles(target, err)
       /\ IF err
          THEN /\ cl' = [cl EXCEPT !.j = @ + 1, !.failed = TRUE, !.errs = @ \cup {target.ID}]
               /\ UNCHANGED tgts
          ELSE /\ cl' = [cl EXCEPT !.j = @ + 1]
               /\ tgts' = MarkTargetSnapshotAsDeleted(tgts, target.ID)
       /\ last' = [Did("CleanupTarget", 0, target.ID) EXCEPT !.arg = err]
  /\ UNCHANGED <<cfg, faulty, schema, http, status, runs, uploadedFiles, cmds, fails, probes, verdict,
                 pc, run, ret, reprobe, finalizers, apiCalls, calls>>

\* cleanupSnapshots, the end of a round of the loop over runsToProcess.
CleanupRunDone ==
  /\ cl.pc = "targets"
  /\ cl.j > Len(NonPersistedTargets(cl.toProcess[cl.i]))
  /\ LET r == cl.toProcess[cl.i]
         db == MarkSnapshotRunAsDeleted([rs |-> runs, ts |-> tgts], r.ID)
     IN
     /\ IF AllTargetsDeleted(r)
        THEN runs' = db.rs /\ tgts' = db.ts
        ELSE UNCHANGED <<runs, tgts>>
     /\ last' = Did("CleanupRunDone", 0, r.ID)
  /\ IF cl.i < Len(cl.toProcess)
     THEN cl' = [cl EXCEPT !.i = @ + 1, !.j = 1]
     ELSE cl' = [cl EXCEPT !.pc = "idle", !.i = 0, !.j = 0, !.toProcess = << >>,
                           !.cycles = @ + 1, !.ret = ""]
  /\ UNCHANGED <<cfg, faulty, schema, http, status, uploadedFiles, cmds, fails, delCalls, probes, verdict,
                 pc, run, ret, reprobe, finalizers, apiCalls, calls>>

\* A request reached a handler of the authenticated subrouter.
Serving ==
  /\ apiCalls < MaxApiCalls
  /\ apiCalls' = apiCalls + 1
  /\ UNCHANGED <<cfg, faulty, schema, status, uploadedFiles, cmds, fails, delCalls, probes, verdict,
                 pc, run, ret, reprobe, finalizers, cl, calls>>

\* The target rows a request changed.
Changed == Cardinality({i \in 1..Len(tgts) : tgts'[i] # tgts[i]})

\* handleSetPersisted / handleSetUnpersisted: 404 when the run does not exist.
RunPersistRequest(id, persisted) ==
  /\ Serving
  /\ IF id \in 1..Len(runs)
     THEN LET db == SetSnapshotRunPersisted([rs |-> runs, ts |-> tgts], id, persisted) IN
          /\ runs' = db.rs
          /\ tgts' = db.ts
          /\ last' = [op |-> "SetSnapshotRunPersisted", p |-> Changed, id |-> id,
                      arg |-> persisted]
     ELSE /\ UNCHANGED <<runs, tgts>>
          /\ last' = Did("NotFound", 0, id)
handleSetPersisted(id) == RunPersistRequest(id, TRUE)
handleSetUnpersisted(id) == RunPersistRequest(id, FALSE)

\* handleSetTargetPersisted / handleSetTargetUnpersisted: 404 when the row does not exist.
TargetPersistRequest(id, persisted) ==
  /\ Serving
  /\ UNCHANGED runs
  /\ IF id \in 1..Len(tgts)
     THEN /\ tgts' = SetTargetSnapshotPersisted(tgts, id, persisted)
          /\ last' = [op |-> "SetTargetSnapshotPersisted", p |-> Changed, id |-> id,
                      arg |-> persisted]
     ELSE /\ UNCHANGED tgts
          /\ last' = Did("NotFound", 0, id)
handleSetTargetPersisted(id) == TargetPersistRequest(id, TRUE)
handleSetTargetUnpersisted(id) == TargetPersistRequest(id, FALSE)

\* An authorized request that arrives between two cleanup cycles.
BetweenCycles(handler) ==
  /\ cl.pc = "idle"
  /\ handler
  /\ UNCHANGED http

NextCleanup ==
  \/ CleanupFetch
  \/ CleanupTarget
  \/ CleanupRunDone
  \/ \E id \in 1..(Len(runs) + 1) : BetweenCycles(handleSetPersisted(id))
  \/ \E id \in 1..(Len(runs) + 1) : BetweenCycles(handleSetUnpersisted(id))
  \/ \E id \in 1..(Len(tgts) + 1) : BetweenCycles(handleSetTargetPersisted(id))
  \/ \E id \in 1..(Len(tgts) + 1) : BetweenCycles(handleSetTargetUnpersisted(id))

SpecCleanup == InitCleanup /\ [][NextCleanup]_vars

\* ------------------------------------------------ claims on the cleanup
\* A cleanup step calls storage delete only on rows that are not persisted.
StorageStep == \A id \in delCalls' \ delCalls : ~tgts[id].Persisted
\* A step sets the deleted flag of no persisted run.
RunFlagStep ==
  \A r \in 1..Len(runs) : (runs[r].Persisted /\ ~runs[r].Deleted) => ~runs'[r].Deleted
\* A step sets the deleted flag of no persisted target row.
TargetFlagStep ==
  \A i \in 1..Len(tgts) : (tgts[i].Persisted /\ ~tgts[i].Deleted) => ~tgts'[i].Deleted

\* C3: a cleanup cycle never calls storage delete on the prefix of a target
\* row whose persisted flag is true, and never sets the deleted flag of a
\* persisted target row or of a persisted run.
C3_RetentionStep == StorageStep /\ RunFlagStep /\ TargetFlagStep
C3_RetentionSafety == [][C3_RetentionStep]_vars

\* What does hold of the cycle: storage and the flags of persisted runs.
StorageAndRunSafety == [][StorageStep /\ RunFlagStep]_vars

\* The successful, non-deleted runs of a store, and the rows of a run.
Candidates(db) == {r \in 1..Len(db.rs) : db.rs[r].Status = "success" /\ ~db.rs[r].Deleted}
Rows(db, r) == {i \in 1..Len(db.ts) : db.ts[i].SnapshotRunID = r}
Min(a, b) == IF a < b THEN a ELSE b

\* A cycle has just ended in which no deletion failed, and it had found every
\* successful non-deleted run not persisted and without persisted target.
CleanCycleDone ==
  /\ cl.pc = "idle"
  /\ last.op \in {"CleanupFetch", "CleanupRunDone"}
  /\ ~cl.failed
  /\ \A r \in Candidates(cl.before) :
       /\ ~cl.before.rs[r].Persisted
       /\ \A i \in Rows(cl.before, r) : ~cl.before.ts[i].Persisted

Untouched(r) ==
  /\ runs[r] = cl.before.rs[r]
  /\ \A i \in Rows(cl.before, r) : tgts[i] = cl.before.ts[i] /\ i \notin delCalls
TargetsCleaned(r) ==
  \A i \in Rows(cl.before, r) :
    tgts[i].Status = "success" => (i \in delCalls /\ tgts[i].Deleted)

\* C4: one cleanup cycle in which every storage deletion succeeds, over n
\* successful non-deleted runs that are not persisted and have no persisted
\* target, leaves the keepCount runs of highest block height untouched and,
\* for each other run, deletes the storage of every successful target and sets
\* the deleted flag on those targets and on the run itself.
C4_OneCycle ==
  CleanCycleDone =>
    LET all == Candidates(cl.before)
        k == Min(keepCount, Cardinality(all))
    IN \E kept \in SUBSET all :
         /\ Cardinality(kept) = k
         /\ \A a \in kept, b \in all \ kept :
              cl.before.rs[a].BlockHeight >= cl.before.rs[b].BlockHeight
         /\ \A r \in kept : Untouched(r)
         /\ \A r \in all \ kept : TargetsCleaned(r) /\ runs[r].Deleted

\* The step is a served request of the given kind.
Served(op) == apiCalls' # apiCalls /\ last'.op = op

\* C6: setting a run's persisted flag to v leaves the run and every one of
\* its target rows with persisted=v, whatever their previous values were.
C6_CascadeStep ==
  Served("SetSnapshotRunPersisted") =>
    /\ runs'[last'.id].Persisted = last'.arg
    /\ \A i \in 1..Len(tgts') :
         tgts'[i].SnapshotRunID = last'.id => tgts'[i].Persisted = last'.arg
C6_CascadingPersistence == [][C6_CascadeStep]_vars

\* Witness: a run request changed some rows of the run and found the others
\* already at the value.
C6_Witness ==
  /\ last.op = "SetSnapshotRunPersisted"
  /\ last.p > 0
  /\ last.p < Cardinality(Rows([rs |-> runs, ts |-> tgts], last.id))
  /\ \A i \in Rows([rs |-> runs, ts |-> tgts], last.id) : tgts[i].Persisted = last.arg

\* C7: setting the persisted flag of one target row leaves unchanged the
\* persisted flag of its run, the persisted flags of all other target rows,
\* and every deleted flag and status.
C7_FrameStep ==
  Served("SetTargetSnapshotPersisted") =>
    /\ runs' = runs
    /\ \A i \in 1..Len(tgts) : i # last'.id => tgts'[i] = tgts[i]
    /\ tgts'[last'.id] = [tgts[last'.id] EXCEPT !.Persisted = last'.arg]
C7_TargetFrame == [][C7_FrameStep]_vars

\* Witness: one row of a persisted run was unpersisted; the run and another
\* row of it are still persisted.
C7_Witness ==
  /\ last.op = "SetTargetSnapshotPersisted"
  /\ ~last.arg
  /\ last.p = 1
  /\ ~tgts[last.id].Persisted
  /\ runs[tgts[last.id].SnapshotRunID].Persisted
  /\ \E i \in 1..Len(tgts) :
       /\ i # last.id
       /\ tgts[i].SnapshotRunID = tgts[last.id].SnapshotRunID
       /\ tgts[i].Persisted

\* ------------------------------------- SpecMigrate: RunMigrations on a file
InitMigrate ==
  /\ AtRest
  /\ runs = << >>
  /\ tgts = << >>
  /\ pc = [p \in Callers |-> "off"]
  /\ cfg \in {c \in Configs : /\ ~c.DryRun /\ ~c.RunOnce /\ c.BlockInterval = 1
                               /\ c.KeepCount = 0 /\ Plain(c)}
  /\ status = StatusInit(cfg.BlockInterval)
  /\ schema = NewSchema
  /\ http = NoRequest
  /\ faulty = FALSE

\* The variables RunMigrations leaves alone.
OnlySchema ==
  UNCHANGED <<cfg, faulty, http, status, runs, tgts, uploadedFiles, cmds, fails, delCalls, probes,
              verdict, pc, run, ret, reprobe, finalizers, cl, apiCalls, calls>>

\* RunMigrations without the query of the migrations table.
RunMigrationsBegin_NoRead ==
  /\ schema.pc = "idle"
  /\ schema.calls < MaxMigrationRuns
  /\ schema' = [schema EXCEPT !.table = TRUE, !.applied = {}, !.i = 1, !.pc = "loop",
                              !.calls = @ + 1, !.ret = "none", !.again = schema.completed]
  /\ last' = Did("RunMigrationsBegin", 0, 0)
  /\ OnlySchema

\* RunMigrations: CREATE TABLE IF NOT EXISTS migrations, then the applied ids are read.
RunMigrationsBegin ==
  /\ schema.pc = "idle"
  /\ schema.calls < MaxMigrationRuns
  /\ schema' = [schema EXCEPT !.table = TRUE, !.applied = Range(schema.ledger), !.i = 1,
                              !.pc = "loop", !.calls = @ + 1, !.ret = "none",
                              !.again = schema.completed]
  /\ last' = Did("RunMigrationsBegin", 0, 0)
  /\ OnlySchema

\* A round of the loop: an applied migration is skipped, else Migrate runs
\* (on db, outside the transaction).
MigrationApply ==
  /\ schema.pc = "loop"
  /\ schema.i <= NumMigrations
  /\ IF schema.i \in schema.applied
     THEN schema' = [schema EXCEPT !.i = @ + 1]
     ELSE LET db == Migrate(schema, ColumnsOf(schema.i)) IN
          schema' = IF db.ret = "err" THEN [db EXCEPT !.pc = "idle"]
                    ELSE [db EXCEPT !.pc = "record"]
  /\ last' = Did("MigrationApply", 0, schema.i)
  /\ OnlySchema

\* The migration is recorded and the transaction committed.
MigrationRecord ==
  /\ schema.pc = "record"
  /\ LET db == InsertMigration(schema, schema.i) IN
     schema' = IF db.ret = "err" THEN [db EXCEPT !.pc = "idle"]
               ELSE [db EXCEPT !.pc = "loop", !.i = @ + 1]
  /\ last' = Did("MigrationRecord", 0, schema.i)
  /\ OnlySchema

\* RunMigrations returns nil after the last migration.
RunMigrationsEnd ==
  /\ schema.pc = "loop"
  /\ schema.i > NumMigrations
  /\ schema' = [schema EXCEPT !.pc = "idle", !.ret = "nil", !.completed = TRUE]
  /\ last' = Did("RunMigrationsEnd", 0, 0)
  /\ OnlySchema

\* The process is killed while RunMigrations runs; what was committed stays.
MigrationCrash ==
  /\ schema.pc \in {"loop", "record"}
  /\ schema' = [schema EXCEPT !.pc = "idle", !.ret = "none",
                              !.torn = @ \/ schema.pc = "record"]
  /\ last' = Did("MigrationCrash", 0, schema.i)
  /\ OnlySchema

NextMigrate ==
  \/ RunMigrationsBegin
  \/ MigrationApply
  \/ MigrationRecord
  \/ RunMigrationsEnd
  \/ MigrationCrash

SpecMigrate == InitMigrate /\ [][NextMigrate]_vars

\* Rows of the migrations table with the given id.
LedgerCount(id) == Cardinality({k \in DOMAIN schema.ledger : schema.ledger[k] = id})

\* C12: RunMigrations called on a database on which a call already completed
\* returns no error, applies no schema change, and leaves the migrations table
\* with exactly one record per migration.
C12_SecondRunStep ==
  schema.completed =>
    /\ schema'.columns = schema.columns
    /\ schema'.table = schema.table
    /\ schema'.ledger = schema.ledger
    /\ schema'.ret # "err"
C12_OnePerStep ==
  schema.completed =>
    /\ Len(schema.ledger) = NumMigrations
    /\ \A id \in MigrationIds : LedgerCount(id) = 1
C12_Idempotence == [][C12_SecondRunStep]_vars /\ []C12_OnePerStep

\* Witness: a call on a database on which a call had completed has returned nil.
C12_Witness ==
  /\ schema.pc = "idle"
  /\ schema.again
  /\ schema.ret = "nil"
  /\ schema.calls >= 2

\* --------------------------------------- SpecStart: Init, then the poller
\* What a target answers to the eth_chainId query of GetELChainID.
ChainAnswers == {"match", "mismatch", "unreachable"}

\* s.sshTargets while initValidations runs: Init assigns the field only after
\* the call.
ValidatedTargets == {}

\* initValidations ends the process (log.Fatalf) when GetELChainID fails on a
\* target it iterates over or returns another chain id than the configured one.
initValidations(targets, answers) == \E t \in targets : answers[t] # "match"

InitStart ==
  /\ Fresh
  /\ pc = [p \in Callers |-> IF p = Poller THEN "init" ELSE "off"]
  /\ cfg \in {c \in Configs : c.KeepCount = 0 /\ Plain(c)}
  /\ status = StatusInit(cfg.BlockInterval)

\* main: Init returns and StartPeriodicPolling is entered, unless
\* initValidations ended the process.
Boot ==
  /\ pc[Poller] = "init"
  /\ \E answers \in [Targets -> ChainAnswers] :
       /\ pc' = [pc EXCEPT ![Poller] =
                   IF initValidations(ValidatedTargets, answers) THEN "fatal" ELSE "tick"]
       /\ last' = [Did("Init", Poller, 0) EXCEPT !.arg = \A t \in Targets : answers[t] = "match"]
  /\ UNCHANGED <<cfg, faulty, schema, http, status, runs, tgts, uploadedFiles, cmds, fails, delCalls,
                 probes, verdict, run, ret, reprobe, finalizers, cl, apiCalls, calls>>

NextStart ==
  \/ Boot
  \/ Next

SpecStart == InitStart /\ [][NextStart]_vars

\* C11: if any configured target is unreachable for the chain-id query or
\* reports another chain id than the configured one, Init does not complete
\* and the polling scheduler is never started.
C11_BootStep ==
  (pc[Poller] = "init" /\ last'.op = "Init" /\ ~last'.arg) => pc'[Poller] = "fatal"
C11_StartupValidation == [][C11_BootStep]_vars

\* ------------------------------------------------------- run-once mode
\* The poller's call of CreateSnapshot has returned and run-once is set.
AttemptReturned == cfg.RunOnce /\ pc[Poller] = "returned"

\* os.Exit(0) was called.
Exited == pc[Poller] = "exited"

\* The poller called CreateSnapshot: it holds the call's error or its run.
AttemptTriggered == ret[Poller] # "" \/ run[Poller] \in RunIds

C13_ExitStep ==
  /\ AttemptReturned => pc'[Poller] \in {"returned", "exited"}
  /\ (Exited' /\ ~Exited) => AttemptReturned

C13_ExitedAfterAttempt == Exited => cfg.RunOnce /\ AttemptTriggered

\* C13: in run-once mode the process exits with code 0 as soon as the first
\* triggered attempt has returned, whether it succeeded or failed: the exit is
\* the poller's next step after the return and it is taken; the process does
\* not exit before an attempt has been triggered.
C13_RunOnce ==
  /\ [][C13_ExitStep]_vars
  /\ []C13_ExitedAfterAttempt
  /\ (AttemptReturned ~> Exited)

C13_Witness == Exited /\ ret[Poller] # "" /\ run[Poller] \in RunIds

\* ------------------------------------------- SpecLatest: the latest marker
InitLatest ==
  /\ Fresh
  /\ pc = [p \in Callers |-> "off"]
  /\ cfg \in {c \in Configs : /\ ~c.RunOnce /\ c.BlockInterval = 1 /\ c.KeepCount = 0
                               /\ c.APIToken = <<"a">>}
  /\ status = StatusInit(cfg.BlockInterval)

\* The poller stores the agreed height in the status.
SetProcessedBlockHeight ==
  /\ \E h \in Heights : status' = [status EXCEPT !.ProcessedBlockHeight = h]
  /\ last' = Did("SetProcessedBlockHeight", Poller, 0)
  /\ UNCHANGED <<cfg, faulty, schema, http, runs, tgts, uploadedFiles, cmds, fails, delCalls, probes,
                 verdict, pc, run, ret, reprobe, finalizers, cl, apiCalls, calls>>

\* A caller that hands over dry-run = false whatever the configuration says.
UpdateLatest_IgnoreDryRun ==
  /\ uploadedFiles' = updateLatestFile(uploadedFiles, FALSE, cfg.RootPrefix,
                                       status.ProcessedBlockHeight)
  /\ ret' = [ret EXCEPT ![Poller] = ""]
  /\ last' = Did("updateLatestFile", Poller, 0)
  /\ UNCHANGED <<cfg, faulty, schema, http, status, runs, tgts, cmds, fails, delCalls, probes,
                 verdict, pc, run, reprobe, finalizers, cl, apiCalls, calls>>

\* ss.updateLatestFile() on a storage client whose PutObject succeeds; the
\* call returns nil.
UpdateLatest ==
  /\ uploadedFiles' = updateLatestFile(uploadedFiles, cfg.DryRun, cfg.RootPrefix,
                                       status.ProcessedBlockHeight)
  /\ ret' = [ret EXCEPT ![Poller] = ""]
  /\ last' = Did("updateLatestFile", Poller, 0)
  /\ UNCHANGED <<cfg, faulty, schema, http, status, runs, tgts, cmds, fails, delCalls, probes,
                 verdict, pc, run, reprobe, finalizers, cl, apiCalls, calls>>

NextLatest ==
  \/ SetProcessedBlockHeight
  \/ UpdateLatest

SpecLatest == InitLatest /\ [][NextLatest]_vars

RECURSIVE StripSlashes(_)
StripSlashes(q) ==
  IF q # << >> /\ q[Len(q)] = Slash THEN StripSlashes(SubSeq(q, 1, Len(q) - 1)) ELSE q

\* q ends with one '/' and not with two.
EndsWithSingleSlash(q) ==
  /\ q # << >>
  /\ q[Len(q)] = Slash
  /\ Len(q) >= 2 => q[Len(q) - 1] # Slash

\* k is a root prefix normalised to end with a single '/' (or empty when no
\* root prefix is configured), followed by 'latest'.
IsLatestKey(k) ==
  /\ k # << >>
  /\ k[Len(k)] = "latest"
  /\ LET pre == SubSeq(k, 1, Len(k) - 1)
     IN IF cfg.RootPrefix = << >>
        THEN pre = << >>
        ELSE EndsWithSingleSlash(pre) /\ StripSlashes(pre) = StripSlashes(cfg.RootPrefix)

UpdatedLatest == last'.op = "updateLatestFile"

\* C14 (as stated): when not in dry-run mode, updateLatestFile writes exactly
\* one object whose key is the root prefix normalised to end with a single
\* '/' (or empty) followed by 'latest' and whose content is the decimal
\* ProcessedBlockHeight, overwriting previous content; no other key is written.
C14_AsStatedStep ==
  (UpdatedLatest /\ ~cfg.DryRun) =>
    \E k \in DOMAIN uploadedFiles' :
      /\ IsLatestKey(k)
      /\ uploadedFiles' = (k :> ToString(status.ProcessedBlockHeight)) @@ uploadedFiles
WithTrailingSlash(q) ==
  IF q = << >> \/ q[Len(q)] = Slash THEN q ELSE Append(q, Slash)

\* C14 (amended): when not in dry-run mode, updateLatestFile writes exactly
\* one object whose key is the root prefix, with '/' appended unless the
\* prefix is empty or already ends with '/', followed by 'latest', and whose
\* content is the decimal ProcessedBlockHeight, overwriting previous content;
\* no other key is written.
C14_LatestStep ==
  (UpdatedLatest /\ ~cfg.DryRun) =>
    LET k == WithTrailingSlash(cfg.RootPrefix) \o <<"latest">>
    IN /\ DOMAIN uploadedFiles' = DOMAIN uploadedFiles \cup {k}
       /\ uploadedFiles'[k] = ToString(status.ProcessedBlockHeight)
       /\ \A j \in DOMAIN uploadedFiles : j # k => uploadedFiles'[j] = uploadedFiles[j]
C15_DryRunStep ==
  (UpdatedLatest /\ cfg.DryRun) => ret'[Poller] = "" /\ uploadedFiles' = uploadedFiles
StatusOK == 200
StatusUnauthorized == 401
StatusNotFound == 404

\* Values of the Authorization header; the empty one is a missing header.
Headers == SeqsUpTo({Bearer, "a"}, MaxTokenLen + 1)

\* A server value over a store with one finished attempt.
InitAuth ==
  /\ NothingInFlight
  /\ pc = [p \in Callers |-> "off"]
  /\ cfg \in {c \in Configs : /\ ~c.DryRun /\ ~c.RunOnce /\ c.BlockInterval = 1
                               /\ c.KeepCount = 0 /\ c.RootPrefix = << >>}
  /\ status = StatusInit(cfg.BlockInterval)
  /\ LET db == StoreAfter(<<[h |-> 1, ok |-> TRUE]>>) IN
       /\ runs = db.rs
       /\ tgts = db.ts

\* http.Error(w, ..., http.StatusUnauthorized) and return: next is not called.
Unauthorized(header) ==
  /\ http' = [Authorization |-> header, Code |-> StatusUnauthorized]
  /\ last' = Did("Unauthorized", 0, 0)
  /\ UNCHANGED <<cfg, faulty, schema, status, runs, tgts, uploadedFiles, cmds, fails, delCalls, probes,
                 verdict, pc, run, ret, reprobe, finalizers, cl, apiCalls, calls>>

\* A middleware that compares the header as it was sent.
authMiddleware_NoBearer(header, next) ==
  IF header = << >>
  THEN Unauthorized(header)
  ELSE IF header # cfg.APIToken
       THEN Unauthorized(header)
       ELSE /\ next
            /\ http' = [Authorization |-> header,
                        Code |-> IF last'.op = "NotFound" THEN StatusNotFound ELSE StatusOK]

\* authMiddleware: 401 on a missing header; a header longer than the seven
\* characters "Bearer " that starts with them loses them; 401 unless the rest
\* equals the configured token; else the handler runs and answers.
authMiddleware(header, next) ==
  IF header = << >>
  THEN Unauthorized(header)
  ELSE LET token == IF Len(header) > 1 /\ header[1] = Bearer THEN Tail(header) ELSE header IN
       IF token # cfg.APIToken
       THEN Unauthorized(header)
       ELSE /\ next
            /\ http' = [Authorization |-> header,
                        Code |-> IF last'.op = "NotFound" THEN StatusNotFound ELSE StatusOK]

NextAuth ==
  \/ \E header \in Headers, id \in 1..(Len(runs) + 1) :
       authMiddleware(header, handleSetPersisted(id))
  \/ \E header \in Headers, id \in 1..(Len(runs) + 1) :
       authMiddleware(header, handleSetUnpersisted(id))
  \/ \E header \in Headers, id \in 1..(Len(tgts) + 1) :
       authMiddleware(header, handleSetTargetPersisted(id))
  \/ \E header \in Headers, id \in 1..(Len(tgts) + 1) :
       authMiddleware(header, handleSetTargetUnpersisted(id))

SpecAuth == InitAuth /\ [][NextAuth]_vars

\* The step answers a request.
Answered == http'.Code # 0 /\ last'.op \in {"Unauthorized", "NotFound", "SetSnapshotRunPersisted",
                                             "SetTargetSnapshotPersisted"}
\* The request of the step reached its handler.
ReachedHandler == apiCalls' = apiCalls + 1 /\ http'.Code # StatusUnauthorized
\* The request of the step was answered 401 and changed no persisted flag.
Rejected ==
  /\ http'.Code = StatusUnauthorized
  /\ apiCalls' = apiCalls
  /\ \A r \in 1..Len(runs) : runs'[r].Persisted = runs[r].Persisted
  /\ \A i \in 1..Len(tgts) : tgts'[i].Persisted = tgts[i].Persisted

\* C16 (as stated): with an API token configured, a request to a protected
\* endpoint reaches its handler iff its Authorization header equals the
\* configured token, bare or prefixed with 'Bearer '; any other request is
\* answered 401 and changes no persisted flag.
C16_AsStatedStep ==
  (Answered /\ cfg.APIToken # << >>) =>
    IF http'.Authorization \in {cfg.APIToken, <<Bearer>> \o cfg.APIToken}
    THEN ReachedHandler
    ELSE Rejected
C16_AsStated == [][C16_AsStatedStep]_vars

\* The header is 'Bearer ' followed by at least one character.
HasBearerPrefix(header) == Len(header) > 1 /\ header[1] = Bearer

\* C16 (amended): with an API token configured, a request to a protected
\* endpoint reaches its handler iff its Authorization header is the
\* configured token prefixed with 'Bearer ', or is the bare token and does not
\* itself consist of 'Bearer ' followed by further characters; any other
\* request is answered 401 and changes no persisted flag.
C16_TokenStep ==
  (Answered /\ cfg.APIToken # << >>) =>
    IF \/ http'.Authorization = <<Bearer>> \o cfg.APIToken
       \/ http'.Authorization = cfg.APIToken /\ ~HasBearerPrefix(cfg.APIToken)
    THEN ReachedHandler
    ELSE Rejected
C16_TokenAuth == [][C16_TokenStep]_vars

\* A request with the bearer form of the token set a persisted flag after a
\* request with another token was answered 401.
C16_Witness ==
  /\ cfg.APIToken = <<"a", "a">>
  /\ http = [Authorization |-> <<Bearer, "a", "a">>, Code |-> StatusOK]
  /\ last.op = "SetTargetSnapshotPersisted"
  /\ last.arg
  /\ tgts[last.id].Persisted

\* C17: when no API token is configured, authentication is disabled: a
\* request to a protected endpoint that carries no Authorization header is
\* passed to the handler instead of being rejected with 401.
C17_NoTokenStep ==
  (Answered /\ cfg.APIToken = << >> /\ http'.Authorization = << >>) => ReachedHandler
C17_AuthDisabled == [][C17_NoTokenStep]_vars

\* ------------------------------------------- the flag and the run record
\* Positions of CreateSnapshot inside Preparing, Uploading and Restoring.
InPhase(p) ==
  pc[p] \in {"prepare", "reprobe", "dump", "stop_el", "upload", "uploading",
             "post", "start_el", "restart_beacon"}

C18_SetInPhases == \A p \in Callers : InPhase(p) => status.SnapshotInProgress
C18_ClearAfterReturn ==
  (\A p \in Callers : ~PastGuard(p)) => ~status.SnapshotInProgress
C18_RejectStep ==
  \A p \in Callers :
    (pc[p] = "create" /\ ret'[p] = AlreadyInProgress) => \E q \in Callers : q # p /\ PastGuard(q)

\* C18: the in-progress flag is true in every state in which an attempt is in
\* Preparing, Uploading or Restoring, and it is false again once CreateSnapshot
\* has returned, on every path (run-record creation failure, failure in a
\* phase, success): a trigger is rejected only while another call is inside
\* CreateSnapshot.
C18_InProgressFlag ==
  /\ []C18_SetInPhases
  /\ []C18_ClearAfterReturn
  /\ [][C18_RejectStep]_vars

\* A call returned the error of the failed run-record creation, a call before
\* it returned a phase failure, and the flag is clear.
C18_Witness ==
  /\ last.op = "Defer"
  /\ ret[last.p] = InsertFailed
  /\ ~status.SnapshotInProgress
  /\ \E r \in RunIds : runs[r].Status = "failed"

\* ---------------------- SpecFaulty: the poller over a store that can fail
InitFaulty ==
  /\ AtRest
  /\ schema = Migrated
  /\ http = NoRequest
  /\ faulty = TRUE
  /\ runs = << >>
  /\ tgts = << >>
  /\ pc = [p \in Callers |-> IF p = Poller THEN "tick" ELSE "off"]
  /\ cfg \in {c \in Configs : c.KeepCount = 0 /\ Plain(c)}
  /\ status = StatusInit(cfg.BlockInterval)

SpecFaulty == InitFaulty /\ [][Next]_vars

\* The caller's CreateSnapshot is returning or has returned an error and its
\* run record exists.
ErrorAfterCreation(p) ==
  /\ pc[p] \in {"defer", "returned", "exited"}
  /\ run[p] \in RunIds
  /\ ret[p] # ""

C19_ErrorRecorded ==
  \A p \in Callers :
    ErrorAfterCreation(p) =>
      runs[run[p]].Status = "failed" /\ runs[run[p]].ErrorMessage = ret[p]
C19_SuccessStep ==
  \A r \in RunIds :
    (runs[r].Status # "success" /\ runs'[r].Status = "success") =>
      \E p \in Callers : pc[p] = "finish" /\ run[p] = r
C19_NoneLeftRunning ==
  \A r \in Running : \E p \in Callers : PastGuard(p) /\ pc[p] # "defer" /\ run[p] = r

\* C19: whenever CreateSnapshot returns an error after its run record was
\* created, that record already has status=failed with the error's message; a
\* run record gets status=success only after Preparing, Uploading and
\* Restoring all returned without error; no run record has status=running
\* once the CreateSnapshot call that created it has returned.
C19_RunRecord ==
  /\ []C19_ErrorRecorded
  /\ [][C19_SuccessStep]_vars
  /\ []C19_NoneLeftRunning

\* ------------------- SpecConcurrent: requests served during a cleanup cycle
\* An authorized request served by the HTTP server's goroutine, whatever the
\* position of the cleanup goroutine.
AtAnyTime(handler) ==
  /\ handler
  /\ UNCHANGED http

NextConcurrent ==
  \/ CleanupFetch
  \/ CleanupTarget
  \/ CleanupRunDone
  \/ \E id \in 1..(Len(runs) + 1) : AtAnyTime(handleSetPersisted(id))
  \/ \E id \in 1..(Len(runs) + 1) : AtAnyTime(handleSetUnpersisted(id))
  \/ \E id \in 1..(Len(tgts) + 1) : AtAnyTime(handleSetTargetPersisted(id))
  \/ \E id \in 1..(Len(tgts) + 1) : AtAnyTime(handleSetTargetUnpersisted(id))

SpecConcurrent == InitCleanup /\ [][NextConcurrent]_vars

\* A step calls storage delete on no row of a run that is persisted.
RunStorageStep ==
  \A id \in delCalls' \ delCalls : ~runs[tgts[id].SnapshotRunID].Persisted

\* C20: with persist/unpersist requests interleaved arbitrarily with a running
\* cleanup cycle, no step sets the deleted flag of, or calls storage delete
\* for, a run or target row whose persisted flag is true when the step is
\* taken.
C20_InterleavedStep ==
  /\ StorageStep
  /\ RunStorageStep
  /\ RunFlagStep
  /\ TargetFlagStep
C20_InterleavedSafety == [][C20_InterleavedStep]_vars

\* --------------------------------------------- claims on the Preparing phase
\* Positions of CreateSnapshot from the start of UploadSnapshot on.
ReachedUploading(p) ==
  \/ pc[p] \in {"upload", "uploading", "post", "start_el", "restart_beacon", "finish"}
  \/ pc[p] \in {"defer", "returned", "exited"} /\ \E i \in 1..Len(tgts) : tgts[i].SnapshotRunID = run[p]

\* C21: for every non-dry-run attempt that reaches Uploading, the block height
\* recorded on the attempt and used in every target's upload destination is
\* the height on which all targets agreed in the Preparing re-probe, also when
\* it differs from the height of the scheduler's agreement check.
C21_ReprobeAuthoritative ==
  \A p \in Callers :
    (~cfg.DryRun /\ ReachedUploading(p) /\ run[p] \in RunIds /\ reprobe.allSynced) =>
      /\ runs[run[p]].BlockHeight = reprobe.block
      /\ \A i \in RowsOf(run[p]) :
           tgts[i].UploadPrefix = UploadPrefixOf(tgts[i].Alias, reprobe.block)

\* Targets whose height could not be retrieved in the re-probe of run r.
ReprobeFailures(r) == {t \in Targets : <<r, "GetELBlockNumber", t>> \in fails}

C22_AbortStep ==
  \A p \in Callers :
    (pc[p] = "reprobe" /\ pc'[p] # "reprobe" /\ ReprobeFailures(run[p])' # {}) =>
      /\ pc'[p] = "defer"
      /\ runs'[run[p]].Status = "failed"
C22_NothingIssued ==
  \A r \in RunIds :
    ReprobeFailures(r) # {} =>
      \A t \in Targets :
        /\ <<r, "DumpGetBlockByNumber", t>> \notin cmds
        /\ <<r, "DumpClientVersion", t>> \notin cmds
        /\ <<r, "StopEL", t>> \notin cmds

\* C22: in the Preparing re-probe, if the block height of any target cannot
\* be retrieved (for one, several or all targets), the attempt is aborted and
\* recorded failed, and no metadata dump and no execution-layer stop is issued
\* on any target.
C22_ReprobeFailure == [][C22_AbortStep]_vars /\ []C22_NothingIssued

\* ----------------------------------------- claims on the agreement check
\* The execution client of target t answered the sync probe with "syncing".
ELReportsSyncing(pr, t) ==
  ~GetSyncStatusEL(pr[t].el).err /\ GetSyncStatusEL(pr[t].el).syncing

\* C23: if the execution-layer sync probe of any target reports that the
\* execution client is currently syncing, VerifyTargetsAreSynced returns
\* allSynced=false (so the scheduler triggers no attempt on that tick).
C23_ELSyncing ==
  (verdict.set /\ \E t \in Targets : ELReportsSyncing(probes, t)) => ~verdict.allSynced

\* Command op was issued on target t in run r; it failed on some target.
Issued(r, op, t) == <<r, op, t>> \in cmds
FailedSomewhere(r, op) == \E t \in Targets : <<r, op, t>> \in fails
SucceededEverywhere(r, op) ==
  (\A t \in Targets : Issued(r, op, t)) /\ ~FailedSomewhere(r, op)

\* The attempt in progress is run r and its re-probe found all values equal.
ReprobeFoundEqual(r) ==
  /\ reprobe.set
  /\ reprobe.allSynced
  /\ \A t \in Targets : Issued(r, "GetELBlockNumber", t)

C24_Ordered ==
  \A r \in RunIds :
    (\E t \in Targets : Issued(r, "StopEL", t)) =>
      /\ SucceededEverywhere(r, "StopSnooper")
      /\ ReprobeFoundEqual(r)
      /\ SucceededEverywhere(r, "DumpGetBlockByNumber")
      /\ SucceededEverywhere(r, "DumpClientVersion")
C24_FailFast ==
  \A r \in RunIds :
    FailedSomewhere(r, "StopSnooper") =>
      /\ runs[r].Status = "failed"
      /\ \A t \in Targets :
           /\ ~Issued(r, "GetELBlockNumber", t)
           /\ ~Issued(r, "DumpGetBlockByNumber", t)
           /\ ~Issued(r, "DumpClientVersion", t)
           /\ ~Issued(r, "StopEL", t)

PreparingErrors ==
  {NotSameHeight} \cup
  {ErrMsg(op, t) : op \in {"StopSnooper", "DumpGetBlockByNumber", "DumpClientVersion", "StopEL"},
                   t \in Targets}

\* The step creates a target row or starts an upload.
UploadBegins ==
  \/ Len(tgts') > Len(tgts)
  \/ \E c \in cmds' \ cmds : c[2] = Rclone

C25_UploadStep ==
  (UploadBegins /\ ~cfg.DryRun) =>
    \E p \in Callers :
      /\ run[p] \in RunIds
      /\ SucceededEverywhere(run[p], "StopEL")
      /\ \A i \in (1..Len(tgts')) \ (1..Len(tgts)) : tgts'[i].SnapshotRunID = run[p]
      /\ \A c \in cmds' \ cmds : c[2] = Rclone => c[1] = run[p]
C25_NoRowsAfterPreparingFailure ==
  \A r \in RunIds :
    (runs[r].Status = "failed" /\ runs[r].ErrorMessage \in PreparingErrors) => RowsOf(r) = {}

\* C25: in a non-dry-run attempt no target's upload starts, and no
\* TargetResult is created, before the execution-layer service stop has
\* succeeded on every target; an attempt that fails in Preparing owns no
\* TargetResult.
C25_UploadAfterStop == [][C25_UploadStep]_vars /\ []C25_NoRowsAfterPreparingFailure

\* The rows of a non-dry-run attempt were created.
C25_Witness ==
  /\ last.op = "UploadStart"
  /\ ~cfg.DryRun
  /\ Cardinality(RowsOf(last.id)) = NumTargets
  /\ SucceededEverywhere(last.id, "StopEL")

\* ------------------------------------ SpecTick: the decision of one ticker tick
\* The poller's tick over a store that already holds earlier attempts, with
\* chain heads up to MaxTickHeight.
TickHistories ==
  UNION {[1..n -> [h : Heights, ok : BOOLEAN]] : n \in 0..MaxRuns}

InitTick ==
  /\ NothingInFlight
  /\ pc = [p \in Callers |-> IF p = Poller THEN "tick" ELSE "off"]
  /\ cfg \in {c \in Configs : c.KeepCount = 0 /\ Plain(c)}
  /\ status = StatusInit(cfg.BlockInterval)
  /\ \E hist \in TickHistories :
       LET db == StoreAfter(hist) IN
       /\ runs = db.rs
       /\ tgts = db.ts

\* The probe outcomes of a tick with chain heads up to MaxTickHeight.
TickProbesAhead == TickProbesUpTo(MaxTickHeight)

NextTick == Poll(TickProbesAhead)

SpecTick == InitTick /\ [][NextTick]_vars

\* The tick on which the agreement check passed.
AgreedTick == last'.op = "Tick" /\ verdict'.allSynced

Triggers == pc[Poller] = "tick" /\ pc'[Poller] = "create"

\* A most recent attempt exists (rows are kept in the order of their start
\* times) and its height plus blockInterval is below h.
StaleAt(h) ==
  \E id \in 1..Len(runs) :
    /\ \A other \in 1..Len(runs) : other <= id
    /\ runs[id].BlockHeight + cfg.BlockInterval < h

C26_TriggerStep ==
  AgreedTick =>
    LET h == verdict'.block IN
    /\ Triggers <=> (h % cfg.BlockInterval = 0 \/ StaleAt(h))
    /\ (Len(runs) = 0 /\ h % cfg.BlockInterval # 0) => ~Triggers

C27_BlocksLeftStep ==
  AgreedTick =>
    LET h == verdict'.block
        I == cfg.BlockInterval
    IN \E r \in 0..(I - 1) :
         /\ BlocksLeftToNextSnapshot(h) = r
         /\ (h + r) % I = 0
         /\ \A q \in 0..(I - 1) : (h + q) % I = 0 => q = r
         /\ r = 0 <=> h % I = 0
         /\ status'.NextSnapshotBlockHeight = h + r

BecomesDeleted(i) == ~tgts[i].Deleted /\ tgts'[i].Deleted

\* This step called DeleteDirectory for row i and the call returned nil.
DeletedInStorage(i) ==
  /\ last'.op = "CleanupTarget"
  /\ last'.id = i
  /\ i \in delCalls'
  /\ ~last'.arg

C28_FlagStep == \A i \in 1..Len(tgts) : BecomesDeleted(i) => DeletedInStorage(i)

\* C28: a target row's deleted flag becomes true only when, in the same
\* cleanup cycle, the storage deletion for its prefix was issued and succeeded.
C28_DeletedAfterStorage == [][C28_FlagStep]_vars


\* ------------------------------ SpecSweep: cleanup cycles over a longer history
\* The cleanup routine alone, over a store that holds one attempt more than
\* the stores of SpecCleanup, so that a cycle has several runs to process.
SweepHistories == [1..(MaxStoreRuns + 1) -> [h : 1..MaxHeight, ok : BOOLEAN]]

InitSweep ==
  /\ NothingInFlight
  /\ pc = [p \in Callers |-> "off"]
  /\ cfg \in {c \in Configs : ~c.RunOnce /\ c.BlockInterval = 1 /\ Plain(c)}
  /\ status = StatusInit(cfg.BlockInterval)
  /\ \E hist \in SweepHistories :
       LET db == StoreAfter(hist) IN
       /\ runs = db.rs
       /\ tgts = db.ts

NextSweep ==
  \/ CleanupFetch
  \/ CleanupTarget
  \/ CleanupRunDone

SpecSweep == InitSweep /\ [][NextSweep]_vars

\* The step on which cleanupSnapshots returns.
CycleEnds == cl.pc = "targets" /\ cl'.pc = "idle"

\* The rows the cycle had to delete: the successful, not persisted target
\* rows, as the cycle found them, of the runs beyond keepCount.
EligibleRows ==
  {i \in 1..Len(cl.before.ts) :
     /\ \E k \in 1..Len(cl.toProcess) : cl.toProcess[k].ID = cl.before.ts[i].SnapshotRunID
     /\ cl.before.ts[i].Status = "success"
     /\ ~cl.before.ts[i].Persisted}

C29_EndStep ==
  (CycleEnds /\ cl'.errs # {}) =>
    /\ \A i \in cl'.errs : tgts'[i].Deleted = cl.before.ts[i].Deleted
    /\ \A i \in EligibleRows :
         /\ i \in delCalls'
         /\ i \notin cl'.errs => tgts'[i].Deleted

\* C29: when the storage deletion of a target fails, its deleted flag is not
\* set in that cycle, and every other eligible target of the same run and of
\* the other runs beyond keepCount is still processed in that cycle.
C29_BestEffort == [][C29_EndStep]_vars

\* A cycle over two runs ended after the first deletion failed and a later
\* one, of another run, succeeded.
C29_Witness ==
  /\ last.op = "CleanupRunDone"
  /\ cl.pc = "idle"
  /\ \E i \in cl.errs : \E k \in delCalls :
       /\ k \notin cl.errs
       /\ k > i
       /\ tgts[k].SnapshotRunID # tgts[i].SnapshotRunID
       /\ tgts[k].Deleted /\ ~cl.before.ts[k].Deleted
       /\ ~tgts[i].Deleted

\* C30: a cleanup cycle in which a storage deletion failed returns an error
\* to its caller once it has run to its end, and returns none only when no
\* deletion failed.
C30_ErrorReported ==
  (last.op = "CleanupRunDone" /\ cl.pc = "idle") => (cl.ret # "" <=> cl.errs # {})


\* ---------------------------------------------- claims on the status columns
Terminal == {"success", "failed"}

\* The status of a row that exists before and after the step changes only
\* from running, and only to success or failed.
StatusMoves(before, after) ==
  \A i \in 1..Len(before) :
    after[i].Status # before[i].Status =>
      before[i].Status = "running" /\ after[i].Status \in Terminal

\* Rows inserted by the step have the status running.
StartRunning(before, after) ==
  \A i \in (Len(before) + 1)..Len(after) : after[i].Status = "running"

C31_StatusStep ==
  /\ Len(runs') >= Len(runs) /\ Len(tgts') >= Len(tgts)
  /\ StatusMoves(runs, runs') /\ StatusMoves(tgts, tgts')
  /\ StartRunning(runs, runs') /\ StartRunning(tgts, tgts')

StatusProgram(label) ==
  CASE label = "902" -> [op |-> "Remote", f |-> "", vals |-> {}, next |-> {"902", "913"}]
    [] label = "913" -> [op |-> "Lock", f |-> "", vals |-> {}, next |-> {"914"}]
    [] label = "914" -> [op |-> "Write", f |-> "ProcessedBlockHeight", vals |-> Heights,
                         next |-> {"915"}]
    [] label = "915" -> [op |-> "Write", f |-> "NextSnapshotBlockHeight",
                         vals |-> {status.ProcessedBlockHeight
                                   + BlocksLeftToNextSnapshot(status.ProcessedBlockHeight)},
                         next |-> {"916"}]
    [] label = "916" -> [op |-> "Unlock", f |-> "", vals |-> {}, next |-> {"902", "963"}]
    [] label = "963" -> [op |-> "Lock", f |-> "", vals |-> {}, next |-> {"964"}]
    [] label = "964" -> [op |-> "Read", f |-> "SnapshotInProgress", vals |-> {},
                         next |-> IF status.SnapshotInProgress THEN {"965"} ELSE {"968"}]
    [] label = "965" -> [op |-> "Unlock", f |-> "", vals |-> {}, next |-> {"902"}]
    [] label = "968" -> [op |-> "Write", f |-> "SnapshotInProgress", vals |-> {TRUE},
                         next |-> {"969"}]
    [] label = "969" -> [op |-> "Unlock", f |-> "", vals |-> {}, next |-> {"977"}]
    [] label = "977" -> [op |-> "Read", f |-> "ProcessedBlockHeight", vals |-> {},
                         next |-> {"989", "971"}]
    [] label = "989" -> [op |-> "Remote", f |-> "", vals |-> {}, next |-> {"1214", "971"}]
    [] label = "1214" -> [op |-> "Read", f |-> "ProcessedBlockHeight", vals |-> {},
                          next |-> {"1232"}]
    [] label = "1232" -> [op |-> "Remote", f |-> "", vals |-> {}, next |-> {"1252", "971"}]
    [] label = "1252" -> [op |-> "Read", f |-> "ProcessedBlockHeight", vals |-> {},
                          next |-> {"1003"}]
    [] label = "1003" -> [op |-> "Remote", f |-> "", vals |-> {}, next |-> {"971"}]
    [] label = "971" -> [op |-> "Lock", f |-> "", vals |-> {}, next |-> {"972"}]
    [] label = "972" -> [op |-> "Write", f |-> "SnapshotInProgress", vals |-> {FALSE},
                         next |-> {"973"}]
    [] label = "973" -> [op |-> "Unlock", f |-> "", vals |-> {}, next |-> {"902"}]
    [] label = "268" -> [op |-> "Read", f |-> "ProcessedBlockHeight", vals |-> {},
                         next |-> {"268"}]

\* Goroutine g executes the statement it is at. Lock blocks while the mutex is
\* held; a read or a write does not look at the mutex.
StatusStep(g) ==
  LET ins == StatusProgram(pc[g]) IN
  /\ IF ins.op = "Lock"
     THEN /\ status.Mutex = 0
          /\ status' = [status EXCEPT !.Mutex = g]
     ELSE IF ins.op = "Unlock"
     THEN status' = [status EXCEPT !.Mutex = 0]
     ELSE IF ins.op = "Write"
     THEN \E v \in ins.vals :
            status' = IF ins.f = "ProcessedBlockHeight"
                      THEN [status EXCEPT !.ProcessedBlockHeight = v]
                      ELSE IF ins.f = "NextSnapshotBlockHeight"
                      THEN [status EXCEPT !.NextSnapshotBlockHeight = v]
                      ELSE [status EXCEPT !.SnapshotInProgress = v]
     ELSE UNCHANGED status
  /\ \E l \in ins.next : pc' = [pc EXCEPT ![g] = l]
  /\ last' = Did(ins.op, g, 0)
  /\ UNCHANGED <<cfg, faulty, schema, http, runs, tgts, uploadedFiles, cmds, fails, delCalls, probes,
                 verdict, run, ret, reprobe, finalizers, cl, apiCalls, calls>>

\* The poller at its ticker, every other goroutine serving status requests.
InitLock ==
  /\ Fresh
  /\ pc = [p \in Callers |-> IF p = Poller THEN "902" ELSE "268"]
  /\ cfg \in {c \in Configs : c.KeepCount = 0 /\ Plain(c)}
  /\ status = StatusInit(cfg.BlockInterval)

SpecLock == InitLock /\ [][\E g \in Callers : StatusStep(g)]_vars

\* C32: every read and write of a field of the status record is made by a
\* goroutine that holds the status lock, and no goroutine holds the lock
\* during a remote call.
C32_LockDiscipline ==
  /\ last.op \in {"Read", "Write"} => status.Mutex = last.p
  /\ last.op = "Remote" => status.Mutex # last.p


\* ------------------------------ claims on a migration that was not recorded
\* The ids of the migrations table are in ascending order, none twice.
LedgerAscending ==
  \A a, b \in DOMAIN schema.ledger : a < b => schema.ledger[a] < schema.ledger[b]

\* C33: once RunMigrations was stopped after a migration changed the schema
\* and before it was recorded, no later call returns an error (in particular
\* none adds a column that exists), the ledger stays in ascending order
\* without a repeated id, and a call that returns leaves one record for
\* every migration and every column in place.
C33_TornRecovery ==
  schema.torn =>
    /\ schema.ret # "err"
    /\ LedgerAscending
    /\ schema.ret = "nil" =>
         /\ \A id \in MigrationIds : LedgerCount(id) = 1
         /\ schema.columns = UNION {ColumnsOf(id) : id \in MigrationIds}

\* A call returned nil after an earlier call was stopped between the schema
\* change and its record.
C33_Witness ==
  /\ schema.torn
  /\ schema.pc = "idle"
  /\ schema.ret = "nil"
  /\ last.op = "RunMigrationsEnd"


\* ------------------------------------------ claims on the poller's resumption
\* CreateSnapshot returned an error to a poller that is not in run-once mode.
FailedReturn == ~cfg.RunOnce /\ pc[Poller] = "returned" /\ ret[Poller] # ""

AtTicker == pc[Poller] = "tick"

\* The agreement check ran again; when the poller has used up the attempts
\* of the model it is back at its ticker.
TickedAgain == IF Len(runs) < MaxRuns THEN last.op = "Tick" ELSE AtTicker

C34_ResumeStep == FailedReturn => pc'[Poller] \in {"returned", "tick"}

C34_NoExit == ~cfg.RunOnce => pc[Poller] \notin {"exited", "fatal"}

RestoreOps == {"StartSnooper", "StartEL", "StopBeacon", "StartBeacon"}

C35_Ordered ==
  \A r \in RunIds :
    /\ (\E t \in Targets : Issued(r, "StartEL", t)) => SucceededEverywhere(r, "StartSnooper")
    /\ (\E t \in Targets : Issued(r, "StopBeacon", t) \/ Issued(r, "StartBeacon", t)) =>
         SucceededEverywhere(r, "StartEL")
    /\ \A t \in Targets :
         Issued(r, "StartBeacon", t) =>
           Issued(r, "StopBeacon", t) /\ <<r, "StopBeacon", t>> \notin fails

C35_FailFast ==
  \A r \in RunIds :
    /\ (\E op \in RestoreOps : FailedSomewhere(r, op)) => runs[r].Status = "failed"
    /\ FailedSomewhere(r, "StartSnooper") =>
         \A t \in Targets : \A op \in RestoreOps \ {"StartSnooper"} : ~Issued(r, op, t)
    /\ FailedSomewhere(r, "StartEL") =>
         \A t \in Targets : ~Issued(r, "StopBeacon", t) /\ ~Issued(r, "StartBeacon", t)

Succeeded(r, op, t) == Issued(r, op, t) /\ <<r, op, t>> \notin fails

\* C36: once a non-dry-run attempt has ended, every service it stopped on a
\* target (sidecar, execution client) has been issued a start on that target
\* in the same attempt, also when Preparing or Uploading failed.
C36_StoppedIsRestarted ==
  \A r \in RunIds :
    (~runs[r].DryRun /\ runs[r].Status \in Terminal) =>
      \A t \in Targets :
        /\ Succeeded(r, "StopSnooper", t) => Issued(r, "StartSnooper", t)
        /\ Succeeded(r, "StopEL", t) => Issued(r, "StartEL", t)


\* ------------------------------------------ claims on shared destination prefixes
\* Row j is retained by the running cycle: a successful, not deleted row of a
\* successful run that is persisted or whose run is not among the runs the
\* cycle processes.
Retained(j) ==
  /\ tgts[j].Status = "success"
  /\ ~tgts[j].Deleted
  /\ runs[tgts[j].SnapshotRunID].Status = "success"
  /\ \/ tgts[j].Persisted
     \/ runs[tgts[j].SnapshotRunID].Persisted
     \/ \A k \in 1..Len(cl.toProcess) : cl.toProcess[k].ID # tgts[j].SnapshotRunID

C37_DeleteStep ==
  \A i \in delCalls' \ delCalls :
    \A j \in 1..Len(tgts) : Retained(j) => tgts[j].UploadPrefix # tgts[i].UploadPrefix

\* C37: cleanup never calls the storage deletion for a prefix that is also
\* the prefix of a retained target row, also when two successful runs were
\* recorded at the same block height.
C37_SharedPrefixSafe == [][C37_DeleteStep]_vars


\* ------------------------------------------- claims on the rows of a run
\* C38: a run with status success owns exactly one target row per configured
\* target, each with status success, in normal mode and in dry-run mode.
C38_SuccessOwnsAll ==
  \A r \in RunIds :
    runs[r].Status = "success" =>
      \A t \in Targets :
        /\ Cardinality({i \in RowsOf(r) : tgts[i].Alias = t}) = 1
        /\ \A i \in RowsOf(r) : tgts[i].Status = "success"


\* ------------------------------------------------- claims on repeated cycles
C39_SecondCycleStep ==
  (cl.clean /\ cl.pc = "targets") =>
    /\ delCalls' \subseteq delCalls
    /\ \A i \in 1..Len(tgts) : tgts'[i].Deleted = tgts[i].Deleted
    /\ \A r \in 1..Len(runs) : runs'[r].Deleted = runs[r].Deleted

\* C39: a cleanup cycle that directly follows a cycle in which no storage
\* deletion failed, with no run created and no persisted flag changed in
\* between, issues no storage deletion and changes no deleted flag.
C39_Idempotent == [][C39_SecondCycleStep]_vars


\* C40: the destination of every target row is its target's configured
\* upload prefix followed by the block height recorded on the run that owns
\* the row, so all rows of a run carry the height of the run.
C40_PrefixHeight ==
  \A i \in 1..Len(tgts) :
    /\ tgts[i].SnapshotRunID \in RunIds
    /\ tgts[i].UploadPrefix = <<tgts[i].Alias, runs[tgts[i].SnapshotRunID].BlockHeight>>

\* The rows of a run recorded above height 0 were created.
C40_Witness ==
  /\ last.op = "UploadStart"
  /\ runs[last.id].BlockHeight > 0
  /\ \A t \in Targets : \E i \in RowsOf(last.id) : tgts[i].Alias = t

====
